---- MODULE Spec2Model ----
(***************************************************************************)
(* sneed: typed, tagged wrappers over the heed/LMDB key-value store.       *)
(*                                                                         *)
(* The model follows src/src/lib.rs (Env, RoTxn, RwTxn with the `observe`  *)
(* feature enabled), src/src/db/wrapper.rs (DbWrapper) and                 *)
(* src/src/db/mod.rs (the DatabaseUnique / DatabaseDup facades, and an     *)
(* earlier copy of DbWrapper with the same bodies).  The storage           *)
(* engine behind `heed_db.*` and `inner.*` calls is LMDB: a table is a set *)
(* of (key bytes, value bytes) rows, a write transaction works on a        *)
(* private view that replaces the committed store on commit, and a nested  *)
(* write transaction works on a copy of its parent's view.                 *)
(***************************************************************************)
EXTENDS Integers, Sequences, FiniteSets, TLC

(***************************************************************************)
(* Bounds of the exploration.                                              *)
(***************************************************************************)
MaxHandles == 2
MaxDepth == 2
MaxSteps == 5
MaxWatchSteps == 6
MaxTwoSteps == 4
MaxScanSteps == 5
MaxKey == 5
MaxSubSteps == 5
MaxBytesLen == 3
MaxErrSteps == 4
MaxIncSteps == 3
MaxOrderSteps == 5

(***************************************************************************)
(* Caller-side universe: environments, the type tags a caller may pick for *)
(* them, table names, key and value items.                                 *)
(***************************************************************************)
Envs == {1, 2}
MainEnv == 1
Tags == {"A", "B"}
Names == {"accounts", "tags"}

\* Items the caller passes: two that encode, and one the codec cannot encode
\* (one past the largest byte).
KeyItems == {1, 2, 256}
ValItems == {1, 2, 256}
WatchKeys == {1, 256}
WatchVals == {1}

\* Option<T>
None == <<>>
Some(x) == <<x>>

\* "accounts" is opened through DatabaseUnique (flags None), "tags" through
\* DatabaseDup (DatabaseFlags::DUP_SORT).
Kind(n) == IF n = "tags" THEN "dup" ELSE "unique"

\* env.path(): each environment is opened over its own directory.
Path(e) == e

(***************************************************************************)
(* Codec capability (KC / DC : BytesEncode + BytesDecode): items are       *)
(* encoded to one byte; an item that does not fit a byte fails to encode,  *)
(* and only one-byte strings decode.                                       *)
(***************************************************************************)
bytes_encode(x) ==
    IF x \in 0..255 THEN [ok |-> TRUE, bytes |-> <<x>>]
    ELSE [ok |-> FALSE, bytes |-> "EncodeError"]

bytes_decode(b) ==
    IF Len(b) = 1 THEN [ok |-> TRUE, item |-> b[1]]
    ELSE [ok |-> FALSE, item |-> "DecodeError"]

(***************************************************************************)
(* The UnitKey codec (lib.rs).  The unit value () is written UnitValue.    *)
(***************************************************************************)
UNIT_KEY_ENCODED == 105

UnitValue == "()"

\* Bytes the caller hands to the decoder: the encoding, its neighbours and
\* the ends of the byte range.
SampleBytes == {0, 104, 105, 106, 255}

RECURSIVE BytesUpTo(_)
BytesUpTo(n) ==
    IF n = 0 THEN {<<>>}
    ELSE BytesUpTo(n - 1)
            \cup {Append(b, x) : b \in {c \in BytesUpTo(n - 1) : Len(c) = n - 1},
                                 x \in SampleBytes}

NoCodecErr == [kind |-> "None", arg |-> 0]

\* A decoder that accepts any single byte.
UnitKeyDecodeAnyByte(b) ==
    IF Len(b) = 1 THEN [ok |-> TRUE, item |-> UnitValue, err |-> NoCodecErr]
    ELSE [ok |-> FALSE, item |-> "none",
          err |-> [kind |-> "IncorrectBytes", arg |-> Len(b)]]

\* <UnitKey as BytesDecode>::bytes_decode
UnitKeyDecode(b) ==
    IF b = <<UNIT_KEY_ENCODED>>
    THEN [ok |-> TRUE, item |-> UnitValue, err |-> NoCodecErr]
    ELSE IF Len(b) = 1
         THEN [ok |-> FALSE, item |-> "none",
               err |-> [kind |-> "IncorrectByte", arg |-> b[1]]]
         ELSE [ok |-> FALSE, item |-> "none",
               err |-> [kind |-> "IncorrectBytes", arg |-> Len(b)]]

\* <UnitKey as BytesEncode>::bytes_encode
UnitKeyEncode(x) == [ok |-> TRUE, bytes |-> <<UNIT_KEY_ENCODED>>]

(***************************************************************************)
(* Byte-string order used by the engine (DefaultComparator: lexicographic) *)
(***************************************************************************)
RECURSIVE LexLess(_, _)
LexLess(a, b) ==
    IF Len(b) = 0 THEN FALSE
    ELSE IF Len(a) = 0 THEN TRUE
    ELSE IF a[1] # b[1] THEN a[1] < b[1]
    ELSE LexLess(Tail(a), Tail(b))

MinBytes(S) == CHOOSE x \in S : \A y \in S \ {x} : LexLess(x, y)

RECURSIVE SortBytes(_)
SortBytes(S) ==
    IF S = {} THEN <<>>
    ELSE LET m == MinBytes(S) IN <<m>> \o SortBytes(S \ {m})

(***************************************************************************)
(* Engine tables.  A table is [exists, rows]; a row is <<key, value>>.     *)
(***************************************************************************)
NoTable == [exists |-> FALSE, rows |-> {}]
EmptyTable == [exists |-> TRUE, rows |-> {}]

RowsOf(t, kb) == {r \in t.rows : r[1] = kb}
ValuesOf(t, kb) == {r[2] : r \in RowsOf(t, kb)}

\* mdb_get: the (first) value stored under the key.
EngGet(t, kb) ==
    IF RowsOf(t, kb) = {} THEN None ELSE Some(MinBytes(ValuesOf(t, kb)))

\* mdb_put without flags: replaces the value of a unique-key table, adds the
\* pair to a sorted-duplicates table.
EngPut(t, kind, kb, vb) ==
    IF kind = "dup" THEN [t EXCEPT !.rows = @ \cup {<<kb, vb>>}]
    ELSE [t EXCEPT !.rows = (@ \ RowsOf(t, kb)) \cup {<<kb, vb>>}]

\* mdb_put with MDB_NOOVERWRITE (heed get_or_put).
EngGetOrPut(t, kb, vb) ==
    IF RowsOf(t, kb) = {} THEN [t EXCEPT !.rows = @ \cup {<<kb, vb>>}] ELSE t

\* mdb_del with no data: every row of the key.
EngDelete(t, kb) == [t EXCEPT !.rows = @ \ RowsOf(t, kb)]

\* mdb_del with data: the one matching pair.
EngDeleteOne(t, kb, vb) == [t EXCEPT !.rows = @ \ {<<kb, vb>>}]

\* mdb_drop(del = 0)
EngClear(t) == [t EXCEPT !.rows = {}]

(***************************************************************************)
(* Engine cursors.  Rows are ordered by key, then by value (MDB_DUPSORT).  *)
(* A cursor walk is the sequence of rows it visits.                        *)
(***************************************************************************)
RowLess(r, s) == LexLess(r[1], s[1]) \/ (r[1] = s[1] /\ LexLess(r[2], s[2]))

MinRow(S) == CHOOSE r \in S : \A s \in S \ {r} : RowLess(r, s)

RECURSIVE SortRows(_)
SortRows(S) ==
    IF S = {} THEN <<>>
    ELSE LET m == MinRow(S) IN <<m>> \o SortRows(S \ {m})

Reverse(s) == [i \in 1..Len(s) |-> s[Len(s) + 1 - i]]

MaxBytes(S) == CHOOSE x \in S : \A y \in S \ {x} : LexLess(y, x)

KeysOf(rows) == {r[1] : r \in rows}

\* The first / the last data item of every key.
FirstOfKeys(rows) ==
    {<<kb, MinBytes({r[2] : r \in {s \in rows : s[1] = kb}})>> :
        kb \in KeysOf(rows)}
LastOfKeys(rows) ==
    {<<kb, MaxBytes({r[2] : r \in {s \in rows : s[1] = kb}})>> :
        kb \in KeysOf(rows)}

\* heed MoveOperation: move_through_duplicate_values is "Any" (MDB_NEXT,
\* MDB_PREV), move_between_keys is "NoDup" (MDB_NEXT_NODUP, MDB_PREV_NODUP).
\* Forward walk: MDB_FIRST, then MDB_NEXT or MDB_NEXT_NODUP ("first data
\* item of next key").
EngIter(rows, move) ==
    IF move = "NoDup" THEN SortRows(FirstOfKeys(rows)) ELSE SortRows(rows)

\* Backward walk: MDB_LAST ("last key/data item"), then MDB_PREV or
\* MDB_PREV_NODUP ("last data item of previous key").
EngRevIter(rows, move) ==
    IF move = "NoDup" THEN Reverse(SortRows(LastOfKeys(rows)))
    ELSE Reverse(SortRows(rows))

\* std::ops::Bound over key bytes.
Unbounded == [bound |-> "Unbounded", bytes |-> <<>>]
Included(b) == [bound |-> "Included", bytes |-> b]
Excluded(b) == [bound |-> "Excluded", bytes |-> b]

AfterStart(kb, lo) ==
    CASE lo.bound = "Unbounded" -> TRUE
      [] lo.bound = "Included" -> ~LexLess(kb, lo.bytes)
      [] lo.bound = "Excluded" -> LexLess(lo.bytes, kb)

BeforeEnd(kb, hi) ==
    CASE hi.bound = "Unbounded" -> TRUE
      [] hi.bound = "Included" -> ~LexLess(hi.bytes, kb)
      [] hi.bound = "Excluded" -> LexLess(kb, hi.bytes)

\* heed RoRange: positions on the first key within the start bound
\* (MDB_SET_RANGE), walks forward, stops at the first key past the end bound.
EngRange(rows, lo, hi, move) ==
    EngIter({r \in rows : AfterStart(r[1], lo) /\ BeforeEnd(r[1], hi)}, move)

(***************************************************************************)
(* State.                                                                  *)
(***************************************************************************)
VARIABLES
    envTag,   \* Env<Tag>: the tag each environment was opened with
    store,    \* committed tables of each environment
    dbs,      \* the database handles created so far (DbWrapper values)
    fired,    \* per handle: number of send_replace calls on its watch channel
    stack,    \* the open write transaction and its nested children (RwTxn)
    left,     \* calls the caller may still make that begin a transaction,
              \* make a handle or write
    ret,      \* what the last call returned
    subs      \* per handle: the subscriber that cloned the handle's
              \* watch::Receiver when the handle was made

vars == <<envTag, store, dbs, fired, stack, left, ret, subs>>

Handles == 1..Len(dbs)

NoPending == [n \in Names |-> 0]

NoErr == [kind |-> "None"]

\* The record of a finished call.
Ret(op, ok, h, key, val, res, err, brands) ==
    [op |-> op, ok |-> ok, h |-> h, key |-> key, val |-> val, res |-> res,
     err |-> err, brands |-> brands, self |-> None]

\* watch::channel(()): the receiver has seen the initial value.  `seen` is
\* the channel version the subscriber saw last; `touched` is history: a
\* commit stored writes made through the handle since the subscriber's last
\* check.
NoSubs == [h \in 1..MaxHandles |-> [seen |-> 0, touched |-> FALSE]]

\* The state after Env::open of the environments in E, each over a fresh
\* directory, with the tags the caller chose; the caller goes on to make at
\* most `calls` calls.
Opened(E, calls) ==
    /\ envTag \in [E -> Tags]
    /\ store = [e \in E |-> [n \in Names |-> NoTable]]
    /\ dbs = <<>>
    /\ fired = [h \in 1..MaxHandles |-> 0]
    /\ subs = NoSubs
    /\ stack = <<>>
    /\ left = calls
    /\ ret = Ret("open_env", TRUE, 0, 0, 0, None, NoErr, {})

\* One environment.
Init == Opened({MainEnv}, MaxSteps) /\ envTag[MainEnv] = "A"

\* One environment, and a caller with a longer run of calls.
InitWatch == Opened({MainEnv}, MaxWatchSteps) /\ envTag[MainEnv] = "A"

\* Two environments alive in one program.
InitTwo == Opened(Envs, MaxTwoSteps) /\ envTag[MainEnv] = "A"

OpenEnvs == DOMAIN envTag

Top == stack[Len(stack)]

\* A call that only observed: a read, or a call that failed and left every
\* variable but `ret` as it was (a failed commit still consumes its
\* transaction).  Such a call is explored as the last call of a behaviour:
\* whatever the caller does after it, it can do without it, to the same effect.
ReadOps ==
    {"try_get", "get", "get_duplicates", "iter_keys_unique",
     "iter_through_duplicate_values", "iter_through_keys",
     "rev_iter_through_keys", "rev_iter_through_duplicate_values",
     "range_through_duplicate_values", "range_through_keys", "contains_key"}
Observed == ret.op \in ReadOps \/ (~ret.ok /\ ret.op # "commit")

\* Tag unification: a call type-checks only when the Tag parameter of all its
\* arguments is one type.
UnifyAny(a, b) == TRUE
Unify(a, b) == a = b


\* A transaction that starts with the pending set of the transaction it is
\* nested in.
NewTxnKeepsPending(e, dir, view) ==
    [env |-> e, dir |-> dir, tag |-> envTag[dir], view |-> view,
     pending |-> IF stack # <<>> THEN Top.pending ELSE NoPending,
     written |-> {}, inherited |-> {}, cleared |-> {}]

(***************************************************************************)
(* Write transactions (lib.rs: Env::write_txn, Env::nested_write_txn,      *)
(* RwTxn::commit, RwTxn::abort).  Only the innermost transaction of the    *)
(* stack can be used: a child holds `&mut` on its parent.  The caller      *)
(* drives one stack of write transactions at a time.                       *)
(***************************************************************************)
\* RwTxn { inner, db_dir, _tag, parent_pending_writes, pending_writes }.
\* `view` is what heed's `inner` sees; `pending` maps a table name to the
\* handle whose watch::Sender is stored under it (0: no entry).  History
\* fields: `written`, the handles written with success through this
\* transaction itself, `inherited`, the handles written through the
\* children (and their children) that committed into it, and `cleared`, the
\* handles through which a clear succeeded in this transaction or in a child
\* that committed into it.
NewTxn(e, dir, view) ==
    [env |-> e, dir |-> dir, tag |-> envTag[dir], view |-> view,
     pending |-> NoPending, written |-> {}, inherited |-> {},
     cleared |-> {}]

Pop(s) == SubSeq(s, 1, Len(s) - 1)

TxnErr(kind, dir) == [kind |-> kind, db_dir |-> Path(dir), source |-> "Mdb"]

WriteTxn(e, mdb) ==
    /\ ~Observed
    /\ stack = <<>>
    /\ left > 0
    /\ IF mdb
       THEN /\ ret' = Ret("write_txn", FALSE, 0, 0, 0, None,
                          TxnErr("WriteTxn", e), {envTag[e]})
            /\ UNCHANGED <<stack, left>>
       ELSE /\ stack' = <<NewTxn(e, e, store[e])>>
            /\ left' = left - 1
            /\ ret' = Ret("write_txn", TRUE, 0, 0, 0, None, NoErr, {envTag[e]})
    /\ UNCHANGED <<envTag, store, dbs, fired, subs>>

NestedWriteTxn(e, mdb) ==
    /\ ~Observed
    /\ Len(stack) >= 1
    /\ Len(stack) < MaxDepth
    /\ left > 0
    /\ Unify(envTag[e], Top.tag)
    /\ IF mdb
       THEN /\ ret' = Ret("nested_write_txn", FALSE, 0, 0, 0, None,
                          TxnErr("NestedWriteTxn", e), {envTag[e], Top.tag})
            /\ UNCHANGED <<stack, left>>
       ELSE /\ stack' = Append(stack, NewTxn(Top.env, e, Top.view))
            /\ left' = left - 1
            /\ ret' = Ret("nested_write_txn", TRUE, 0, 0, 0, None, NoErr,
                          {envTag[e], Top.tag})
    /\ UNCHANGED <<envTag, store, dbs, fired, subs>>

\* parent_pending_writes.extend(self.pending_writes)
Extend(parent, child) ==
    [n \in Names |-> IF child[n] # 0 THEN child[n] ELSE parent[n]]

\* pending_writes.iter().for_each(|(_, watch_tx)| watch_tx.send_replace(()))
Fire(f, pending) ==
    [h \in DOMAIN f |-> IF \E n \in Names : pending[n] = h THEN f[h] + 1 ELSE f[h]]

\* History: a commit stored writes made through the handles of W.
Touch(sb, W) ==
    [h \in DOMAIN sb |-> IF h \in W THEN [sb[h] EXCEPT !.touched = TRUE]
                         ELSE sb[h]]

\* The parent after a child committed into it.
Merged(parent, child) ==
    [parent EXCEPT !.view = child.view,
                   !.pending = Extend(parent.pending, child.pending),
                   !.inherited = @ \cup child.written \cup child.inherited,
                   !.cleared = @ \cup child.cleared]

\* commit(self) and abort(self) take the transaction by value: the record of
\* the call keeps what the transaction had registered.
Consumed(txn) ==
    Some([pending |-> txn.pending, written |-> txn.written,
          inherited |-> txn.inherited])

\* A commit whose nested case stores the child's view and fires the child's
\* senders, as a top-level commit does.
CommitChildThrough(mdb) ==
    /\ ~Observed
    /\ Len(stack) >= 1
    /\ IF mdb
       THEN /\ stack' = Pop(stack)
            /\ ret' = [Ret("commit", FALSE, 0, 0, 0, None,
                           TxnErr("Commit", Top.dir), {Top.tag})
                           EXCEPT !.self = Consumed(Top)]
            /\ UNCHANGED <<store, fired, subs>>
       ELSE /\ ret' = [Ret("commit", TRUE, 0, 0, 0, None, NoErr, {Top.tag})
                           EXCEPT !.self = Consumed(Top)]
            /\ stack' = IF Len(stack) > 1
                        THEN [Pop(stack) EXCEPT ![Len(stack) - 1] =
                                 Merged(stack[Len(stack) - 1], Top)]
                        ELSE <<>>
            /\ store' = [store EXCEPT ![Top.env] = Top.view]
            /\ fired' = Fire(fired, Top.pending)
            /\ subs' = Touch(subs, Top.written \cup Top.inherited)
    /\ UNCHANGED <<envTag, dbs, left>>

\* A commit that notifies before it looks at the engine's result.
CommitNotifiesFirst(mdb) ==
    /\ ~Observed
    /\ Len(stack) >= 1
    /\ ret' = [Ret("commit", ~mdb, 0, 0, 0, None,
                   IF mdb THEN TxnErr("Commit", Top.dir) ELSE NoErr, {Top.tag})
                   EXCEPT !.self = Consumed(Top)]
    /\ IF Len(stack) > 1
       THEN /\ stack' = [Pop(stack) EXCEPT ![Len(stack) - 1] =
                            [Merged(stack[Len(stack) - 1], Top) EXCEPT
                                !.view = IF mdb THEN stack[Len(stack) - 1].view
                                         ELSE Top.view]]
            /\ UNCHANGED <<store, fired, subs>>
       ELSE /\ stack' = <<>>
            /\ store' = IF mdb THEN store
                        ELSE [store EXCEPT ![Top.env] = Top.view]
            /\ fired' = Fire(fired, Top.pending)
            /\ subs' = IF mdb THEN subs
                       ELSE Touch(subs, Top.written \cup Top.inherited)
    /\ UNCHANGED <<envTag, dbs, left>>

\* RwTxn::commit.  `mdb`: the engine-level commit fails.
Commit(mdb) ==
    /\ ~Observed
    /\ Len(stack) >= 1
    /\ IF mdb
       THEN /\ stack' = Pop(stack)
            /\ ret' = [Ret("commit", FALSE, 0, 0, 0, None,
                           TxnErr("Commit", Top.dir), {Top.tag})
                           EXCEPT !.self = Consumed(Top)]
            /\ UNCHANGED <<store, fired, subs>>
       ELSE /\ ret' = [Ret("commit", TRUE, 0, 0, 0, None, NoErr, {Top.tag})
                           EXCEPT !.self = Consumed(Top)]
            /\ IF Len(stack) > 1
               THEN /\ stack' = [Pop(stack) EXCEPT ![Len(stack) - 1] =
                                    Merged(stack[Len(stack) - 1], Top)]
                    /\ UNCHANGED <<store, fired, subs>>
               ELSE /\ stack' = <<>>
                    /\ store' = [store EXCEPT ![Top.env] = Top.view]
                    /\ fired' = Fire(fired, Top.pending)
                    /\ subs' = Touch(subs, Top.written \cup Top.inherited)
    /\ UNCHANGED <<envTag, dbs, left>>

\* An abort that goes through the notification path of commit.
AbortNotifies(how) ==
    /\ ~Observed
    /\ Len(stack) >= 1
    /\ ret' = [Ret(how, TRUE, 0, 0, 0, None, NoErr, {Top.tag})
                   EXCEPT !.self = Consumed(Top)]
    /\ IF Len(stack) > 1
       THEN /\ stack' = [Pop(stack) EXCEPT ![Len(stack) - 1].pending =
                            Extend(@, Top.pending)]
            /\ UNCHANGED fired
       ELSE /\ stack' = <<>>
            /\ fired' = Fire(fired, Top.pending)
    /\ UNCHANGED <<envTag, store, dbs, left, subs>>

\* An abort whose engine transaction is committed instead.
AbortKeeps(how) ==
    /\ ~Observed
    /\ Len(stack) >= 1
    /\ ret' = [Ret(how, TRUE, 0, 0, 0, None, NoErr, {Top.tag})
                   EXCEPT !.self = Consumed(Top)]
    /\ IF Len(stack) > 1
       THEN /\ stack' = [Pop(stack) EXCEPT ![Len(stack) - 1].view = Top.view]
            /\ UNCHANGED store
       ELSE /\ stack' = <<>>
            /\ store' = [store EXCEPT ![Top.env] = Top.view]
    /\ UNCHANGED <<envTag, dbs, fired, left, subs>>

\* RwTxn::abort, and dropping an RwTxn without committing it.
Abort(how) ==
    /\ ~Observed
    /\ Len(stack) >= 1
    /\ stack' = Pop(stack)
    /\ ret' = [Ret(how, TRUE, 0, 0, 0, None, NoErr, {Top.tag})
                   EXCEPT !.self = Consumed(Top)]
    /\ UNCHANGED <<envTag, store, dbs, fired, left, subs>>

(***************************************************************************)
(* Read access.  A read runs in the innermost write transaction (RwTxn      *)
(* derefs to RoTxn) or in a read transaction begun for it on an            *)
(* environment (Env::read_txn), which sees the committed store.            *)
(***************************************************************************)
\* 0: the innermost write transaction; e: a read transaction on environment e.
InRw == 0
Via == OpenEnvs \cup {InRw}

ViewOf(via) == IF via = InRw THEN Top.view ELSE store[via]
TagOf(via) == IF via = InRw THEN Top.tag ELSE envTag[via]

(***************************************************************************)
(* Database handles (db/wrapper.rs: DbWrapper::create, DbWrapper::open).   *)
(***************************************************************************)
\* DbWrapper { heed_db, name, path, tag, watch }: the watch channel of the
\* handle is fired[h].
NewDb(e, n) == [name |-> n, env |-> e, tag |-> envTag[e]]

DbErr(kind, e, n) ==
    [kind |-> kind, name |-> n, path |-> Path(e), source |-> "Mdb"]

\* create(env, rwtxn, name, flags): creates the table in the transaction if
\* it does not exist and opens it if it does.
Create(e, n, mdb) ==
    /\ ~Observed
    /\ Len(stack) >= 1
    /\ Len(dbs) < MaxHandles
    /\ left > 0
    /\ Unify(envTag[e], Top.tag)
    /\ IF mdb
       THEN /\ ret' = Ret("create", FALSE, 0, 0, 0, None,
                          DbErr("CreateDb", e, n), {envTag[e], Top.tag})
            /\ UNCHANGED <<dbs, stack, left>>
       ELSE /\ dbs' = Append(dbs, NewDb(e, n))
            /\ left' = left - 1
            /\ stack' = [stack EXCEPT ![Len(stack)].view[n] =
                            IF @.exists THEN @ ELSE EmptyTable]
            /\ ret' = Ret("create", TRUE, Len(dbs) + 1, 0, 0, None, NoErr,
                          {envTag[e], Top.tag})
    /\ UNCHANGED <<envTag, store, fired, subs>>

\* open(env, rotxn, name, flags): Ok(None) when the table does not exist.
Open(e, n, via, mdb) ==
    /\ ~Observed
    /\ via = InRw => Len(stack) >= 1
    /\ Len(dbs) < MaxHandles
    /\ left > 0
    /\ Unify(envTag[e], TagOf(via))
    /\ IF mdb
       THEN /\ ret' = Ret("open", FALSE, 0, 0, 0, None,
                          DbErr("OpenDb", e, n), {envTag[e], TagOf(via)})
            /\ UNCHANGED <<dbs, left>>
       ELSE IF ViewOf(via)[n].exists
            THEN /\ dbs' = Append(dbs, NewDb(e, n))
                 /\ left' = left - 1
                 /\ ret' = Ret("open", TRUE, Len(dbs) + 1, 0, 0,
                               Some(Len(dbs) + 1), NoErr,
                               {envTag[e], TagOf(via)})
            ELSE /\ ret' = Ret("open", FALSE, 0, 0, 0, None, NoErr,
                               {envTag[e], TagOf(via)})
                 /\ UNCHANGED <<dbs, left>>
    /\ UNCHANGED <<envTag, store, fired, stack, subs>>

(***************************************************************************)
(* Write operations (DbWrapper in db/wrapper.rs, reached through           *)
(* DatabaseUnique and DatabaseDup).                                        *)
(***************************************************************************)
\* rwtxn.pending_writes.insert(self.name.clone(), self.watch.0.clone())
Register(txn, h) ==
    [txn EXCEPT !.pending[dbs[h].name] = h, !.written = @ \cup {h}]

\* An error whose byte fields hold empty bytes where the encoding failed.
OpErrPlaceholder(kind, h, kb, vb, src) ==
    [kind |-> kind, db_name |-> dbs[h].name, db_path |-> Path(dbs[h].env),
     key_bytes |-> IF kb.ok THEN kb ELSE [ok |-> TRUE, bytes |-> <<>>],
     value_bytes |-> IF vb.ok THEN vb ELSE [ok |-> TRUE, bytes |-> <<>>],
     source |-> src]

\* error::Put / error::Delete / error::Clear / error::TryGet: the database's
\* name and path, the key (value) bytes or their encode error, the source.
OpErr(kind, h, kb, vb, src) ==
    [kind |-> kind, db_name |-> dbs[h].name, db_path |-> Path(dbs[h].env),
     key_bytes |-> kb, value_bytes |-> vb, source |-> src]

NoBytes == [ok |-> TRUE, bytes |-> <<>>]

\* A write call that reached `Ok(..)`: the table is replaced in the view of
\* the innermost transaction and the sender is registered.
WriteOk(op, h, k, v, res, table) ==
    /\ stack' = [stack EXCEPT ![Len(stack)] =
                    Register([@ EXCEPT !.view[dbs[h].name] = table,
                                       !.cleared = IF op = "clear"
                                                   THEN @ \cup {h} ELSE @],
                             h)]
    /\ left' = left - 1
    /\ ret' = Ret(op, TRUE, h, k, v, res, NoErr, {dbs[h].tag, Top.tag})
    /\ UNCHANGED <<envTag, store, dbs, fired, subs>>

\* A call that returned through `map_err(..)?`.
OpFailed(op, h, k, v, err) ==
    /\ ret' = Ret(op, FALSE, h, k, v, None, err, {dbs[h].tag, Top.tag})
    /\ UNCHANGED <<envTag, store, dbs, fired, stack, left, subs>>

\* The call can be made: an open write transaction and a handle of its tag.
CanWrite(h) ==
    /\ ~Observed
    /\ Len(stack) >= 1
    /\ h \in Handles
    /\ left > 0
    /\ Unify(dbs[h].tag, Top.tag)

TableOf(h) == Top.view[dbs[h].name]

\* heed::Error of a call with these encodings: Encoding before Mdb.
Source(kb, vb) == IF kb.ok /\ vb.ok THEN "Mdb" ELSE "Encoding"

\* A put that passes PutFlags::NO_OVERWRITE.
PutNoOverwrite(h, k, v, mdb) ==
    /\ CanWrite(h)
    /\ LET kb == bytes_encode(k)
           vb == bytes_encode(v)
       IN IF kb.ok /\ vb.ok /\ ~mdb /\ TableOf(h).exists
          THEN WriteOk("put", h, k, v, None,
                       EngGetOrPut(TableOf(h), kb.bytes, vb.bytes))
          ELSE OpFailed("put", h, k, v, OpErr("Put", h, kb, vb, Source(kb, vb)))

\* A put that adds the pair beside the value already stored (the engine's
\* put on a table opened with DUP_SORT).
PutAppends(h, k, v, mdb) ==
    /\ CanWrite(h)
    /\ LET kb == bytes_encode(k)
           vb == bytes_encode(v)
       IN IF kb.ok /\ vb.ok /\ ~mdb /\ TableOf(h).exists
          THEN WriteOk("put", h, k, v, None,
                       EngPut(TableOf(h), "dup", kb.bytes, vb.bytes))
          ELSE OpFailed("put", h, k, v, OpErr("Put", h, kb, vb, Source(kb, vb)))

\* DatabaseUnique::put / DatabaseDup::put -> DbWrapper::put_with_flags
Put(h, k, v, mdb) ==
    /\ CanWrite(h)
    /\ LET kb == bytes_encode(k)
           vb == bytes_encode(v)
       IN IF kb.ok /\ vb.ok /\ ~mdb /\ TableOf(h).exists
          THEN WriteOk("put", h, k, v, None,
                       EngPut(TableOf(h), Kind(dbs[h].name), kb.bytes, vb.bytes))
          ELSE OpFailed("put", h, k, v, OpErr("Put", h, kb, vb, Source(kb, vb)))

\* Decoding of a stored value (DC::bytes_decode); stored values were encoded
\* by the same codec.
Decoded(ob) == IF ob = None THEN None ELSE Some(bytes_decode(ob[1]).item)

\* A try_put that stores the new value over the old one.
TryPutOverwrites(h, k, v, mdb) ==
    /\ CanWrite(h)
    /\ Kind(dbs[h].name) = "unique"
    /\ LET kb == bytes_encode(k)
           vb == bytes_encode(v)
       IN IF kb.ok /\ vb.ok /\ ~mdb /\ TableOf(h).exists
          THEN WriteOk("try_put", h, k, v, Decoded(EngGet(TableOf(h), kb.bytes)),
                       EngPut(TableOf(h), "unique", kb.bytes, vb.bytes))
          ELSE OpFailed("try_put", h, k, v,
                        OpErr("Put", h, kb, vb, Source(kb, vb)))

\* DatabaseUnique::try_put -> DbWrapper::try_put (heed get_or_put): inserts
\* when the key is absent, otherwise returns the value already stored.
TryPut(h, k, v, mdb) ==
    /\ CanWrite(h)
    /\ Kind(dbs[h].name) = "unique"
    /\ LET kb == bytes_encode(k)
           vb == bytes_encode(v)
       IN IF kb.ok /\ vb.ok /\ ~mdb /\ TableOf(h).exists
          THEN WriteOk("try_put", h, k, v, Decoded(EngGet(TableOf(h), kb.bytes)),
                       EngGetOrPut(TableOf(h), kb.bytes, vb.bytes))
          ELSE OpFailed("try_put", h, k, v,
                        OpErr("Put", h, kb, vb, Source(kb, vb)))

\* A delete that removes only the first value of the key.
DeleteFirst(h, k, mdb) ==
    /\ CanWrite(h)
    /\ LET kb == bytes_encode(k)
       IN IF kb.ok /\ ~mdb /\ TableOf(h).exists
          THEN WriteOk("delete", h, k, 0, RowsOf(TableOf(h), kb.bytes) # {},
                       IF RowsOf(TableOf(h), kb.bytes) = {} THEN TableOf(h)
                       ELSE EngDeleteOne(TableOf(h), kb.bytes,
                                         EngGet(TableOf(h), kb.bytes)[1]))
          ELSE OpFailed("delete", h, k, 0,
                        OpErr("Delete", h, kb, NoBytes, Source(kb, NoBytes)))

\* DatabaseUnique::delete / DatabaseDup::delete_each -> DbWrapper::delete
Delete(h, k, mdb) ==
    /\ CanWrite(h)
    /\ LET kb == bytes_encode(k)
       IN IF kb.ok /\ ~mdb /\ TableOf(h).exists
          THEN WriteOk("delete", h, k, 0, RowsOf(TableOf(h), kb.bytes) # {},
                       EngDelete(TableOf(h), kb.bytes))
          ELSE OpFailed("delete", h, k, 0,
                        OpErr("Delete", h, kb, NoBytes, Source(kb, NoBytes)))

\* A delete_one that removes every value of the key.
DeleteOneEach(h, k, v, mdb) ==
    /\ CanWrite(h)
    /\ Kind(dbs[h].name) = "dup"
    /\ LET kb == bytes_encode(k)
           vb == bytes_encode(v)
       IN IF kb.ok /\ vb.ok /\ ~mdb /\ TableOf(h).exists
          THEN WriteOk("delete_one", h, k, v,
                       <<kb.bytes, vb.bytes>> \in TableOf(h).rows,
                       EngDelete(TableOf(h), kb.bytes))
          ELSE OpFailed("delete_one", h, k, v,
                        OpErr("Delete", h, kb, NoBytes, Source(kb, vb)))

\* DatabaseDup::delete_one -> DbWrapper::delete_one_duplicate
DeleteOne(h, k, v, mdb) ==
    /\ CanWrite(h)
    /\ Kind(dbs[h].name) = "dup"
    /\ LET kb == bytes_encode(k)
           vb == bytes_encode(v)
       IN IF kb.ok /\ vb.ok /\ ~mdb /\ TableOf(h).exists
          THEN WriteOk("delete_one", h, k, v,
                       <<kb.bytes, vb.bytes>> \in TableOf(h).rows,
                       EngDeleteOne(TableOf(h), kb.bytes, vb.bytes))
          ELSE OpFailed("delete_one", h, k, v,
                        OpErr("Delete", h, kb, NoBytes, Source(kb, vb)))

\* DbWrapper::clear, on either kind of table
Clear(h, mdb) ==
    /\ CanWrite(h)
    /\ IF ~mdb /\ TableOf(h).exists
       THEN WriteOk("clear", h, 0, 0, None, EngClear(TableOf(h)))
       ELSE OpFailed("clear", h, 0, 0,
                     OpErr("Clear", h, NoBytes, NoBytes, "Mdb"))

(***************************************************************************)
(* Read operations (DbWrapper in db/wrapper.rs, reached through            *)
(* RoDatabaseUnique and RoDatabaseDup).                                    *)
(***************************************************************************)
CanRead(h, via) ==
    /\ ~Observed
    /\ h \in Handles
    /\ via = InRw => Len(stack) >= 1
    /\ Unify(dbs[h].tag, TagOf(via))

ReadOk(op, h, k, res, via) ==
    /\ ret' = Ret(op, TRUE, h, k, 0, res, NoErr, {dbs[h].tag, TagOf(via)})
    /\ UNCHANGED <<envTag, store, dbs, fired, stack, left, subs>>

ReadFailed(op, h, k, err, via) ==
    /\ ret' = Ret(op, FALSE, h, k, 0, None, err, {dbs[h].tag, TagOf(via)})
    /\ UNCHANGED <<envTag, store, dbs, fired, stack, left, subs>>

\* What DbWrapper::try_get returns: [ok, res] or [ok, err].  heed_db.get
\* decodes the value it finds, and fails when the bytes do not decode.
try_get(view, h, k, mdb) ==
    LET kb == bytes_encode(k)
        t == view[dbs[h].name]
        found == IF kb.ok THEN EngGet(t, kb.bytes) ELSE None
        decodes == found = None \/ bytes_decode(found[1]).ok
    IN IF kb.ok /\ ~mdb /\ t.exists /\ decodes
       THEN [ok |-> TRUE, res |-> Decoded(found), err |-> NoErr]
       ELSE [ok |-> FALSE, res |-> None,
             err |-> OpErr("TryGet", h, kb, NoBytes,
                           IF kb.ok /\ ~mdb /\ t.exists THEN "Decoding"
                           ELSE Source(kb, NoBytes))]

\* A contains_key that decodes the value it finds: try_get(..).is_some().
contains_key_decoding(view, h, k, mdb) ==
    LET r == try_get(view, h, k, mdb)
    IN IF r.ok THEN [r EXCEPT !.res = (r.res # None)] ELSE r

\* What DbWrapper::contains_key returns:
\* heed_db.lazily_decode_data().get(rotxn, key) .. Ok(lazy_value.is_some())
contains_key(view, h, k, mdb) ==
    LET kb == bytes_encode(k)
        t == view[dbs[h].name]
    IN IF kb.ok /\ ~mdb /\ t.exists
       THEN [ok |-> TRUE, res |-> EngGet(t, kb.bytes) # None, err |-> NoErr]
       ELSE [ok |-> FALSE, res |-> None,
             err |-> OpErr("TryGet", h, kb, NoBytes, Source(kb, NoBytes))]

\* error::Get::MissingValue { db_name, db_path, key_bytes }: the key bytes
\* are those of bytes_encode(key).unwrap().
MissingValue(h, k) ==
    [kind |-> "Get::MissingValue", db_name |-> dbs[h].name,
     db_path |-> Path(dbs[h].env), key_bytes |-> bytes_encode(k).bytes]

\* A get that drops the lookup's error: try_get(..).ok().flatten().
getLossy(view, h, k, mdb) ==
    LET r == try_get(view, h, k, mdb)
    IN IF r.ok /\ r.res # None
       THEN [ok |-> TRUE, res |-> r.res[1], err |-> NoErr]
       ELSE [ok |-> FALSE, res |-> None, err |-> MissingValue(h, k)]

\* What DbWrapper::get returns: try_get(..)?.ok_or_else(MissingValue).
get(view, h, k, mdb) ==
    LET r == try_get(view, h, k, mdb)
    IN IF ~r.ok THEN [r EXCEPT !.err.kind = "Get::TryGet"]
       ELSE IF r.res = None
            THEN [ok |-> FALSE, res |-> None, err |-> MissingValue(h, k)]
            ELSE [ok |-> TRUE, res |-> r.res[1], err |-> NoErr]

\* A get_duplicates that treats a key without values as get treats a
\* missing key.
get_duplicates_or_missing(view, h, k, mdb) ==
    LET kb == bytes_encode(k)
        t == view[dbs[h].name]
    IN IF kb.ok /\ ~mdb /\ t.exists /\ ValuesOf(t, kb.bytes) # {}
       THEN [ok |-> TRUE,
             res |-> LET vs == SortBytes(ValuesOf(t, kb.bytes))
                     IN [i \in 1..Len(vs) |-> bytes_decode(vs[i]).item],
             err |-> NoErr]
       ELSE IF kb.ok /\ ~mdb /\ t.exists
       THEN [ok |-> FALSE, res |-> None, err |-> MissingValue(h, k)]
       ELSE [ok |-> FALSE, res |-> None,
             err |-> OpErr("IterDuplicatesInit", h, kb, NoBytes,
                           Source(kb, NoBytes))]

\* What DbWrapper::get_duplicates yields: the values of the key in order.
get_duplicates(view, h, k, mdb) ==
    LET kb == bytes_encode(k)
        t == view[dbs[h].name]
    IN IF kb.ok /\ ~mdb /\ t.exists
       THEN [ok |-> TRUE,
             res |-> LET vs == SortBytes(ValuesOf(t, kb.bytes))
                     IN [i \in 1..Len(vs) |-> bytes_decode(vs[i]).item],
             err |-> NoErr]
       ELSE [ok |-> FALSE, res |-> None,
             err |-> OpErr("IterDuplicatesInit", h, kb, NoBytes,
                           Source(kb, NoBytes))]

\* What DbWrapper::len returns: the number of entries of the table.
len(view, h, mdb) ==
    IF ~mdb /\ view[dbs[h].name].exists
    THEN [ok |-> TRUE, res |-> Cardinality(view[dbs[h].name].rows),
          err |-> NoErr]
    ELSE [ok |-> FALSE, res |-> None,
          err |-> [kind |-> "Len", db_name |-> dbs[h].name,
                   db_path |-> Path(dbs[h].env), source |-> "Mdb"]]

\* error::IterInit { db_name, db_path, source }
IterInit(h) ==
    [kind |-> "IterInit", db_name |-> dbs[h].name,
     db_path |-> Path(dbs[h].env), source |-> "Mdb"]

\* One step of an iterator over (KC::DItem, DC::DItem): Ok((key, value)), or
\* Err(error::IterItem) when the row does not decode.
Step(r) ==
    LET k == bytes_decode(r[1])
        v == bytes_decode(r[2])
    IN IF k.ok /\ v.ok THEN [ok |-> TRUE, item |-> <<k.item, v.item>>]
       ELSE [ok |-> FALSE, item |-> <<>>]

\* One step over lazily_decode_data(), mapped to the key: the value bytes
\* are never decoded.
KeyStep(r) ==
    LET k == bytes_decode(r[1])
    IN IF k.ok THEN [ok |-> TRUE, item |-> <<k.item>>]
       ELSE [ok |-> FALSE, item |-> <<>>]

\* heed_db.iter / rev_iter: Err(IterInit) when the engine refuses the cursor,
\* otherwise the steps of the walk.
Scan(view, h, mdb, walk) ==
    IF ~mdb /\ view[dbs[h].name].exists
    THEN [ok |-> TRUE, res |-> [i \in 1..Len(walk) |-> Step(walk[i])],
          err |-> NoErr]
    ELSE [ok |-> FALSE, res |-> None, err |-> IterInit(h)]

ScanKeys(view, h, mdb, walk) ==
    IF ~mdb /\ view[dbs[h].name].exists
    THEN [ok |-> TRUE, res |-> [i \in 1..Len(walk) |-> KeyStep(walk[i])],
          err |-> NoErr]
    ELSE [ok |-> FALSE, res |-> None, err |-> IterInit(h)]

RowsSeen(view, h) == view[dbs[h].name].rows

\* A keys iterator that visits every row.
iter_keys_each(view, h, mdb) ==
    ScanKeys(view, h, mdb, EngIter(RowsSeen(view, h), "Any"))

\* DbWrapper::iter_keys_unique:
\* lazily_decode_data().iter(rotxn).move_between_keys().map(key)
iter_keys_unique(view, h, mdb) ==
    ScanKeys(view, h, mdb, EngIter(RowsSeen(view, h), "NoDup"))

\* An iterator through duplicate values that stops at each key once.
iter_first_values(view, h, mdb) ==
    Scan(view, h, mdb, EngIter(RowsSeen(view, h), "NoDup"))

\* DbWrapper::iter_through_duplicate_values:
\* iter(rotxn).move_through_duplicate_values()
iter_through_duplicate_values(view, h, mdb) ==
    Scan(view, h, mdb, EngIter(RowsSeen(view, h), "Any"))

\* DbWrapper::iter_through_keys: iter(rotxn).move_between_keys()
iter_through_keys(view, h, mdb) ==
    Scan(view, h, mdb, EngIter(RowsSeen(view, h), "NoDup"))

\* DbWrapper::rev_iter_through_keys: rev_iter(rotxn).move_between_keys()
rev_iter_through_keys(view, h, mdb) ==
    Scan(view, h, mdb, EngRevIter(RowsSeen(view, h), "NoDup"))

\* DbWrapper::rev_iter_through_duplicate_values:
\* rev_iter(rotxn).move_through_duplicate_values()
rev_iter_through_duplicate_values(view, h, mdb) ==
    Scan(view, h, mdb, EngRevIter(RowsSeen(view, h), "Any"))

\* std::ops::Bound over key items, as the caller passes it.
RangeBounds(K) ==
    {[bound |-> "Unbounded", key |-> 0]}
       \cup {[bound |-> "Included", key |-> k] : k \in K}
       \cup {[bound |-> "Excluded", key |-> k] : k \in K}

\* range_bound_bytes: the bound with its key encoded, or the encode error.
range_bound_bytes(b) ==
    IF b.bound = "Unbounded" THEN [ok |-> TRUE, bound |-> Unbounded]
    ELSE LET kb == bytes_encode(b.key)
         IN [ok |-> kb.ok, bound |-> [bound |-> b.bound, bytes |-> kb.bytes]]

\* error::RangeInit { db_name, db_path, range_start_bytes, range_end_bytes,
\* source }
RangeInit(h, lo, hi) ==
    [kind |-> "RangeInit", db_name |-> dbs[h].name,
     db_path |-> Path(dbs[h].env),
     range_start_bytes |-> range_bound_bytes(lo),
     range_end_bytes |-> range_bound_bytes(hi),
     source |-> IF range_bound_bytes(lo).ok /\ range_bound_bytes(hi).ok
                THEN "Mdb" ELSE "Encoding"]

\* hex::encode: two hexadecimal digits for each byte.
RECURSIVE hex_encode(_)
hex_encode(bytes) ==
    IF bytes = <<>> THEN <<>>
    ELSE <<Head(bytes) \div 16, Head(bytes) % 16>> \o hex_encode(Tail(bytes))

\* A bound the message does not print.
Omitted == [bound |-> "Omitted", bytes |-> <<>>]

\* One bound as the message prints it: its kind and the hex of its bytes.
Printed(b) == [bound |-> b.bound, bytes |-> hex_encode(b.bytes)]

\* error::display_range_bytes: returns at the first bound whose encoding
\* failed with a text about that bound alone, and prints both bounds only
\* when both were encoded.
display_range_bytes(start_bound, end_bound) ==
    IF ~start_bound.ok
    THEN [text |-> "key encoding failed for range start with error",
          error |-> start_bound.bound.bytes, start |-> Omitted,
          end |-> Omitted]
    ELSE IF ~end_bound.ok
    THEN [text |-> "key encoding failed for range end with error",
          error |-> end_bound.bound.bytes, start |-> Omitted,
          end |-> Omitted]
    ELSE [text |-> "range", error |-> "None",
          start |-> Printed(start_bound.bound),
          end |-> Printed(end_bound.bound)]

\* The Display of error::RangeInit: the database name, its path and
\* display_range_bytes of the two bound fields.
RangeInitMessage(err) ==
    [db_name |-> err.db_name, db_path |-> err.db_path,
     range |-> display_range_bytes(err.range_start_bytes,
                                   err.range_end_bytes)]

\* heed_db.range(rotxn, range): encodes the bounds, then walks the rows
\* between them.
Ranged(view, h, lo, hi, mdb, move) ==
    LET l == range_bound_bytes(lo)
        u == range_bound_bytes(hi)
    IN IF l.ok /\ u.ok /\ ~mdb /\ view[dbs[h].name].exists
       THEN LET walk == EngRange(RowsSeen(view, h), l.bound, u.bound, move)
            IN [ok |-> TRUE, res |-> [i \in 1..Len(walk) |-> Step(walk[i])],
                err |-> NoErr]
       ELSE [ok |-> FALSE, res |-> None, err |-> RangeInit(h, lo, hi)]

\* DbWrapper::range_through_duplicate_values:
\* range(rotxn, range).move_through_duplicate_values()
range_through_duplicate_values(view, h, lo, hi, mdb) ==
    Ranged(view, h, lo, hi, mdb, "Any")

\* DbWrapper::range_through_keys: range(rotxn, range).move_between_keys()
range_through_keys(view, h, lo, hi, mdb) ==
    Ranged(view, h, lo, hi, mdb, "NoDup")

Returned(op, h, k, r, via) ==
    IF r.ok THEN ReadOk(op, h, k, r.res, via)
    ELSE ReadFailed(op, h, k, r.err, via)

\* RoDatabaseUnique::try_get
TryGet(h, k, via, mdb) ==
    /\ CanRead(h, via)
    /\ Kind(dbs[h].name) = "unique"
    /\ Returned("try_get", h, k, try_get(ViewOf(via), h, k, mdb), via)

\* RoDatabaseUnique::get
Get(h, k, via, mdb) ==
    /\ CanRead(h, via)
    /\ Kind(dbs[h].name) = "unique"
    /\ Returned("get", h, k, get(ViewOf(via), h, k, mdb), via)

\* RoDatabaseDup::get
GetDuplicates(h, k, via, mdb) ==
    /\ CanRead(h, via)
    /\ Kind(dbs[h].name) = "dup"
    /\ Returned("get_duplicates", h, k,
                get_duplicates(ViewOf(via), h, k, mdb), via)

\* DbWrapper::iter_keys_unique
IterKeysUnique(h, via, mdb) ==
    /\ CanRead(h, via)
    /\ Returned("iter_keys_unique", h, 0,
                iter_keys_unique(ViewOf(via), h, mdb), via)

\* DbWrapper::iter_through_duplicate_values
IterThroughDuplicateValues(h, via, mdb) ==
    /\ CanRead(h, via)
    /\ Returned("iter_through_duplicate_values", h, 0,
                iter_through_duplicate_values(ViewOf(via), h, mdb), via)

\* DbWrapper::iter_through_keys
IterThroughKeys(h, via, mdb) ==
    /\ CanRead(h, via)
    /\ Returned("iter_through_keys", h, 0,
                iter_through_keys(ViewOf(via), h, mdb), via)

\* DbWrapper::rev_iter_through_keys
RevIterThroughKeys(h, via, mdb) ==
    /\ CanRead(h, via)
    /\ Returned("rev_iter_through_keys", h, 0,
                rev_iter_through_keys(ViewOf(via), h, mdb), via)

\* DbWrapper::range_through_duplicate_values
RangeThroughDuplicateValues(h, lo, hi, via, mdb) ==
    /\ CanRead(h, via)
    /\ Returned("range_through_duplicate_values", h, <<lo, hi>>,
                range_through_duplicate_values(ViewOf(via), h, lo, hi, mdb),
                via)

\* DbWrapper::range_through_keys
RangeThroughKeys(h, lo, hi, via, mdb) ==
    /\ CanRead(h, via)
    /\ Returned("range_through_keys", h, <<lo, hi>>,
                range_through_keys(ViewOf(via), h, lo, hi, mdb), via)

\* DbWrapper::rev_iter_through_duplicate_values
RevIterThroughDuplicateValues(h, via, mdb) ==
    /\ CanRead(h, via)
    /\ Returned("rev_iter_through_duplicate_values", h, 0,
                rev_iter_through_duplicate_values(ViewOf(via), h, mdb), via)

\* RoDatabaseUnique::contains_key, RoDatabaseDup::contains_key
ContainsKey(h, k, via, mdb) ==
    /\ CanRead(h, via)
    /\ Returned("contains_key", h, k, contains_key(ViewOf(via), h, k, mdb),
                via)

\* A subscriber's check on its clone of DbWrapper::watch(): tokio's
\* Receiver::changed / has_changed with borrow_and_update reports whether
\* the channel's version differs from the one seen, and marks it seen.
Check(h) ==
    /\ ~Observed
    /\ h \in Handles
    /\ ret' = Ret("check", TRUE, h, 0, 0, fired[h] # subs[h].seen, NoErr,
                  {dbs[h].tag})
    /\ subs' = [subs EXCEPT ![h] = [seen |-> fired[h], touched |-> FALSE]]
    /\ UNCHANGED <<envTag, store, dbs, fired, stack, left>>

Next ==
    \/ \E e \in OpenEnvs, mdb \in BOOLEAN : WriteTxn(e, mdb)
    \/ \E e \in OpenEnvs, mdb \in BOOLEAN : NestedWriteTxn(e, mdb)
    \/ \E mdb \in BOOLEAN : Commit(mdb)
    \/ \E how \in {"abort", "drop"} : Abort(how)
    \/ \E e \in OpenEnvs, n \in Names, mdb \in BOOLEAN : Create(e, n, mdb)
    \/ \E e \in OpenEnvs, n \in Names, via \in Via, mdb \in BOOLEAN :
          Open(e, n, via, mdb)
    \/ \E h \in Handles, k \in KeyItems, v \in ValItems, mdb \in BOOLEAN :
          Put(h, k, v, mdb)
    \/ \E h \in Handles, k \in KeyItems, v \in ValItems, mdb \in BOOLEAN :
          TryPut(h, k, v, mdb)
    \/ \E h \in Handles, k \in KeyItems, mdb \in BOOLEAN : Delete(h, k, mdb)
    \/ \E h \in Handles, k \in KeyItems, v \in ValItems, mdb \in BOOLEAN :
          DeleteOne(h, k, v, mdb)
    \/ \E h \in Handles, mdb \in BOOLEAN : Clear(h, mdb)
    \/ \E h \in Handles, k \in KeyItems, via \in Via, mdb \in BOOLEAN :
          TryGet(h, k, via, mdb)
    \/ \E h \in Handles, k \in KeyItems, via \in Via, mdb \in BOOLEAN :
          Get(h, k, via, mdb)
    \/ \E h \in Handles, k \in KeyItems, via \in Via, mdb \in BOOLEAN :
          GetDuplicates(h, k, via, mdb)

\* The same calls over fewer keys and values: which channels a commit fires
\* depends on which handles were written through, not on the keys or values.
NextWatch ==
    \/ \E e \in OpenEnvs, mdb \in BOOLEAN : WriteTxn(e, mdb)
    \/ \E e \in OpenEnvs, mdb \in BOOLEAN : NestedWriteTxn(e, mdb)
    \/ \E mdb \in BOOLEAN : Commit(mdb)
    \/ \E how \in {"abort", "drop"} : Abort(how)
    \/ \E e \in OpenEnvs, n \in Names, mdb \in BOOLEAN : Create(e, n, mdb)
    \/ \E e \in OpenEnvs, n \in Names, via \in Via, mdb \in BOOLEAN :
          Open(e, n, via, mdb)
    \/ \E h \in Handles, k \in WatchKeys, v \in WatchVals, mdb \in BOOLEAN :
          Put(h, k, v, mdb)
    \/ \E h \in Handles, k \in WatchKeys, v \in WatchVals, mdb \in BOOLEAN :
          TryPut(h, k, v, mdb)
    \/ \E h \in Handles, k \in WatchKeys, mdb \in BOOLEAN : Delete(h, k, mdb)
    \/ \E h \in Handles, k \in WatchKeys, v \in WatchVals, mdb \in BOOLEAN :
          DeleteOne(h, k, v, mdb)
    \/ \E h \in Handles, mdb \in BOOLEAN : Clear(h, mdb)
    \/ \E h \in Handles, k \in WatchKeys, via \in Via, mdb \in BOOLEAN :
          TryGet(h, k, via, mdb)
    \/ \E h \in Handles, k \in WatchKeys, via \in Via, mdb \in BOOLEAN :
          Get(h, k, via, mdb)
    \/ \E h \in Handles, k \in WatchKeys, via \in Via, mdb \in BOOLEAN :
          GetDuplicates(h, k, via, mdb)

\* One environment.
Spec == Init /\ [][Next]_vars

\* One environment, a longer run of calls.
SpecWatch == InitWatch /\ [][NextWatch]_vars

\* Two environments.
SpecTwo == InitTwo /\ [][NextWatch]_vars

\* One environment; the calls that fill a table and the calls that walk it.
InitScan == Opened({MainEnv}, MaxScanSteps) /\ envTag[MainEnv] = "A"

NextScan ==
    \/ \E e \in OpenEnvs, mdb \in BOOLEAN : WriteTxn(e, mdb)
    \/ \E mdb \in BOOLEAN : Commit(mdb)
    \/ \E how \in {"abort", "drop"} : Abort(how)
    \/ \E e \in OpenEnvs, n \in Names, mdb \in BOOLEAN : Create(e, n, mdb)
    \/ \E h \in Handles, k \in KeyItems, v \in ValItems, mdb \in BOOLEAN :
          Put(h, k, v, mdb)
    \/ \E h \in Handles, k \in KeyItems, mdb \in BOOLEAN : Delete(h, k, mdb)
    \/ \E h \in Handles, k \in KeyItems, v \in ValItems, mdb \in BOOLEAN :
          DeleteOne(h, k, v, mdb)
    \/ \E h \in Handles, mdb \in BOOLEAN : Clear(h, mdb)
    \/ \E h \in Handles, k \in KeyItems, via \in Via, mdb \in BOOLEAN :
          GetDuplicates(h, k, via, mdb)
    \/ \E h \in Handles, via \in Via, mdb \in BOOLEAN :
          IterKeysUnique(h, via, mdb)
    \/ \E h \in Handles, via \in Via, mdb \in BOOLEAN :
          IterThroughDuplicateValues(h, via, mdb)
    \/ \E h \in Handles, via \in Via, mdb \in BOOLEAN :
          IterThroughKeys(h, via, mdb)
    \/ \E h \in Handles, via \in Via, mdb \in BOOLEAN :
          RevIterThroughKeys(h, via, mdb)

SpecScan == InitScan /\ [][NextScan]_vars

\* An environment opened over a directory that already holds one table, and
\* a handle opened on that table.  A key of the table is absent or holds
\* one of the value sets of Shapes: one value, two values (sorted-duplicates
\* tables only), or a value that the handle's value codec does not decode
\* (written through a handle with another value type).
RangeKeys == 1..MaxKey
BoundKeys == {2, 4, 256}
Shapes(kind) ==
    IF kind = "dup" THEN {{}, {<<1>>}, {<<1>>, <<2>>}}
    ELSE {{}, {<<1>>}, {<<1, 1>>}}
StoredTables(kind) ==
    {[exists |-> TRUE,
      rows |-> UNION {{<<bytes_encode(k).bytes, vb>> : vb \in f[k]} :
                         k \in RangeKeys}] :
        f \in [RangeKeys -> Shapes(kind)]}

InitStored ==
    /\ envTag = [e \in {MainEnv} |-> "A"]
    /\ \E n \in Names : \E t \in StoredTables(Kind(n)) :
          /\ store = [e \in {MainEnv} |->
                         [m \in Names |-> IF m = n THEN t ELSE NoTable]]
          /\ dbs = <<[name |-> n, env |-> MainEnv, tag |-> "A"]>>
    /\ fired = [h \in 1..MaxHandles |-> 0]
    /\ subs = NoSubs
    /\ stack = <<>>
    /\ left = 0
    /\ ret = Ret("open", TRUE, 1, 0, 0, None, NoErr, {"A"})

NextStored ==
    \/ \E h \in Handles, k \in RangeKeys \cup {256}, via \in Via,
          mdb \in BOOLEAN : ContainsKey(h, k, via, mdb)
    \/ \E h \in Handles, k \in RangeKeys \cup {256}, via \in Via,
          mdb \in BOOLEAN : TryGet(h, k, via, mdb)
    \/ \E h \in Handles, via \in Via, mdb \in BOOLEAN :
          RevIterThroughDuplicateValues(h, via, mdb)
    \/ \E h \in Handles, lo \in RangeBounds(BoundKeys),
          hi \in RangeBounds(BoundKeys), via \in Via,
          mdb \in BOOLEAN : RangeThroughDuplicateValues(h, lo, hi, via, mdb)
    \/ \E h \in Handles, lo \in RangeBounds(BoundKeys),
          hi \in RangeBounds(BoundKeys), via \in Via,
          mdb \in BOOLEAN : RangeThroughKeys(h, lo, hi, via, mdb)

SpecStored == InitStored /\ [][NextStored]_vars

\* One environment, writers and the subscribers of the handles.
InitSub == Opened({MainEnv}, MaxSubSteps) /\ envTag[MainEnv] = "A"

NextSub ==
    \/ \E e \in OpenEnvs, mdb \in BOOLEAN : WriteTxn(e, mdb)
    \/ \E e \in OpenEnvs, mdb \in BOOLEAN : NestedWriteTxn(e, mdb)
    \/ \E mdb \in BOOLEAN : Commit(mdb)
    \/ \E how \in {"abort", "drop"} : Abort(how)
    \/ \E e \in OpenEnvs, n \in Names, mdb \in BOOLEAN : Create(e, n, mdb)
    \/ \E h \in Handles, k \in WatchKeys, v \in WatchVals, mdb \in BOOLEAN :
          Put(h, k, v, mdb)
    \/ \E h \in Handles, mdb \in BOOLEAN : Clear(h, mdb)
    \/ \E h \in Handles : Check(h)

SpecSub == InitSub /\ [][NextSub]_vars

\* One environment and a caller whose keys and values may fail to encode,
\* making every keyed call of a handle.
InitErr == Opened({MainEnv}, MaxErrSteps) /\ envTag[MainEnv] = "A"

NextErr ==
    \/ \E e \in OpenEnvs, mdb \in BOOLEAN : WriteTxn(e, mdb)
    \/ \E e \in OpenEnvs, n \in Names, mdb \in BOOLEAN : Create(e, n, mdb)
    \/ \E h \in Handles, k \in WatchKeys, v \in WatchKeys, mdb \in BOOLEAN :
          Put(h, k, v, mdb)
    \/ \E h \in Handles, k \in WatchKeys, v \in WatchKeys, mdb \in BOOLEAN :
          TryPut(h, k, v, mdb)
    \/ \E h \in Handles, k \in WatchKeys, mdb \in BOOLEAN : Delete(h, k, mdb)
    \/ \E h \in Handles, k \in WatchKeys, v \in WatchKeys, mdb \in BOOLEAN :
          DeleteOne(h, k, v, mdb)
    \/ \E h \in Handles, k \in WatchKeys, via \in Via, mdb \in BOOLEAN :
          TryGet(h, k, via, mdb)
    \/ \E h \in Handles, k \in WatchKeys, via \in Via, mdb \in BOOLEAN :
          ContainsKey(h, k, via, mdb)
    \/ \E h \in Handles, k \in WatchKeys, via \in Via, mdb \in BOOLEAN :
          GetDuplicates(h, k, via, mdb)

SpecErr == InitErr /\ [][NextErr]_vars

(***************************************************************************)
(* Cross-database inconsistency errors (db/error.rs: mod inconsistent).    *)
(* A constructor either returns its value or panics: `returned` tells      *)
(* which, and `panic` is the message of the panic.                         *)
(***************************************************************************)
\* enum KeyOrValue { Key, Value }
KeyOrValue == {"key", "value"}

\* inconsistent::Inner::new: bytes_encode(on).expect(..), then the roles and
\* the names of the two databases.
Inner_new(on, db0, by0, db1, by1) ==
    LET on_bytes == bytes_encode(on)
    IN IF on_bytes.ok
       THEN [returned |-> TRUE,
             value |-> [on |-> on_bytes.bytes,
                        db0_by |-> by0, db0_name |-> dbs[db0].name,
                        db1_by |-> by1, db1_name |-> dbs[db1].name],
             panic |-> "None"]
       ELSE [returned |-> FALSE, value |-> None,
             panic |-> "Encoding should succeed when constructing inconsistent DBs error"]

\* And::new, Nor::new, Xor::new: Self(Box::new(Inner::new(on, db0, db1)))
Wrapped(kind, inner) ==
    IF inner.returned
    THEN [inner EXCEPT !.value = [kind |-> kind, inner |-> inner.value]]
    ELSE inner

Constructed(op, on, r) ==
    /\ ret' = Ret(op, r.returned, 0, on, 0, r.value,
                  [kind |-> "panic", message |-> r.panic], {})
    /\ UNCHANGED <<envTag, store, dbs, fired, stack, left, subs>>

\* inconsistent::And::new
AndNew(on, db0, by0, db1, by1) ==
    /\ ~Observed
    /\ Constructed("And::new", on,
                   Wrapped("And", Inner_new(on, db0, by0, db1, by1)))

\* inconsistent::Nor::new
NorNew(on, db0, by0, db1, by1) ==
    /\ ~Observed
    /\ Constructed("Nor::new", on,
                   Wrapped("Nor", Inner_new(on, db0, by0, db1, by1)))

\* inconsistent::Xor::new
XorNew(on, db0, by0, db1, by1) ==
    /\ ~Observed
    /\ Constructed("Xor::new", on,
                   Wrapped("Xor", Inner_new(on, db0, by0, db1, by1)))

\* One environment and a caller that relates two databases and reports
\* their inconsistencies.
InitInc == Opened({MainEnv}, MaxIncSteps) /\ envTag[MainEnv] = "A"

NextInc ==
    \/ \E e \in OpenEnvs, mdb \in BOOLEAN : WriteTxn(e, mdb)
    \/ \E e \in OpenEnvs, n \in Names, mdb \in BOOLEAN : Create(e, n, mdb)
    \/ \E on \in WatchKeys, db0 \in Handles, db1 \in Handles :
          \E by0 \in KeyOrValue, by1 \in KeyOrValue :
             AndNew(on, db0, by0, db1, by1)
    \/ \E on \in WatchKeys, db0 \in Handles, db1 \in Handles :
          \E by0 \in KeyOrValue, by1 \in KeyOrValue :
             NorNew(on, db0, by0, db1, by1)
    \/ \E on \in WatchKeys, db0 \in Handles, db1 \in Handles :
          \E by0 \in KeyOrValue, by1 \in KeyOrValue :
             XorNew(on, db0, by0, db1, by1)

SpecInc == InitInc /\ [][NextInc]_vars

(***************************************************************************)
(* RwTxn::commit of a top-level transaction, statement by statement, with  *)
(* the subscribers running beside it (lib.rs 160-176).  While the call is  *)
(* between its statements, `ret` holds its position: op "commit: notify",  *)
(* and in `self` the consumed transaction with the senders not yet fired.  *)
(***************************************************************************)
Committing == ret.op = "commit: notify"

\* The transaction a commit in progress has consumed.
InCommit == ret.self[1]

Position(txn, remaining) ==
    Some([env |-> txn.env, view |-> txn.view, pending |-> remaining,
          written |-> txn.written, inherited |-> txn.inherited])

\* A commit that sends its notifications before it commits to the engine.
InnerCommitAfterNotify(mdb) ==
    /\ ~Observed
    /\ ~Committing
    /\ Len(stack) = 1
    /\ stack' = <<>>
    /\ fired' = Fire(fired, Top.pending)
    /\ IF mdb
       THEN /\ ret' = [Ret("commit", FALSE, 0, 0, 0, None,
                           TxnErr("Commit", Top.dir), {Top.tag})
                           EXCEPT !.self = Consumed(Top)]
            /\ UNCHANGED <<store, subs>>
       ELSE /\ ret' = [Ret("commit: notify", TRUE, 0, 0, 0, None, NoErr,
                           {Top.tag})
                           EXCEPT !.self = Position(Top, NoPending)]
            /\ store' = [store EXCEPT ![Top.env] = Top.view]
            /\ subs' = Touch(subs, Top.written \cup Top.inherited)
    /\ UNCHANGED <<envTag, dbs, left>>

\* let () = self.inner.commit().map_err(..)?;
InnerCommit(mdb) ==
    /\ ~Observed
    /\ ~Committing
    /\ Len(stack) = 1
    /\ stack' = <<>>
    /\ IF mdb
       THEN /\ ret' = [Ret("commit", FALSE, 0, 0, 0, None,
                           TxnErr("Commit", Top.dir), {Top.tag})
                           EXCEPT !.self = Consumed(Top)]
            /\ UNCHANGED <<store, subs>>
       ELSE /\ ret' = [Ret("commit: notify", TRUE, 0, 0, 0, None, NoErr,
                           {Top.tag})
                           EXCEPT !.self = Position(Top, Top.pending)]
            /\ store' = [store EXCEPT ![Top.env] = Top.view]
            /\ subs' = Touch(subs, Top.written \cup Top.inherited)
    /\ UNCHANGED <<envTag, dbs, fired, left>>

\* One turn of pending_writes.iter().for_each(|(_, watch_tx)|
\* watch_tx.send_replace(())): a HashMap is walked in no particular order.
SendReplace(n) ==
    /\ Committing
    /\ InCommit.pending[n] # 0
    /\ fired' = [fired EXCEPT ![InCommit.pending[n]] = @ + 1]
    /\ ret' = [ret EXCEPT !.self[1].pending[n] = 0]
    /\ UNCHANGED <<envTag, store, dbs, stack, left, subs>>

\* Ok(())
CommitReturns ==
    /\ Committing
    /\ InCommit.pending = NoPending
    /\ ret' = [ret EXCEPT !.op = "commit"]
    /\ UNCHANGED <<envTag, store, dbs, fired, stack, left, subs>>

\* A subscriber, on its own task, takes the signal of its receiver
\* (Receiver::changed, borrow_and_update) whatever the writer is doing.
Subscriber(h) ==
    /\ h \in Handles
    /\ fired[h] # subs[h].seen
    /\ subs' = [subs EXCEPT ![h] = [seen |-> fired[h], touched |-> FALSE]]
    /\ UNCHANGED <<envTag, store, dbs, fired, stack, left, ret>>

InitOrder == Opened({MainEnv}, MaxOrderSteps) /\ envTag[MainEnv] = "A"

NextOrder ==
    \/ \E e \in OpenEnvs, mdb \in BOOLEAN : ~Committing /\ WriteTxn(e, mdb)
    \/ \E e \in OpenEnvs, n \in Names, mdb \in BOOLEAN :
          ~Committing /\ Create(e, n, mdb)
    \/ \E h \in Handles, k \in WatchKeys, v \in WatchVals, mdb \in BOOLEAN :
          ~Committing /\ Put(h, k, v, mdb)
    \/ \E mdb \in BOOLEAN : InnerCommit(mdb)
    \/ \E n \in Names : SendReplace(n)
    \/ CommitReturns
    \/ \E h \in Handles : Subscriber(h)

SpecOrder == InitOrder /\ [][NextOrder]_vars

\* A caller of the UnitKey codec.  The last call's record holds the input
\* handed in ("bytes" / "unit") or the result of the codec call made on it.
CodecFrame == UNCHANGED <<envTag, store, dbs, fired, stack, left, subs>>

\* UnitKey::bytes_decode(bytes)
BytesDecodeUnit ==
    /\ ret.op = "bytes"
    /\ LET r == UnitKeyDecode(ret.key)
       IN ret' = Ret("UnitKey::bytes_decode", r.ok, 0, ret.key, 0, r.item,
                     r.err, {})
    /\ CodecFrame

\* UnitKey::bytes_encode(&())
BytesEncodeUnit ==
    /\ ret.op = "unit"
    /\ LET r == UnitKeyEncode(UnitValue)
       IN ret' = Ret("UnitKey::bytes_encode", r.ok, 0, 0, 0, r.bytes,
                     NoCodecErr, {})
    /\ CodecFrame

\* UnitKey::bytes_encode of what a decode returned.
EncodeDecoded ==
    /\ ret.op = "UnitKey::bytes_decode"
    /\ ret.ok
    /\ LET r == UnitKeyEncode(ret.res)
       IN ret' = Ret("encode(decode)", r.ok, 0, ret.key, 0, r.bytes,
                     NoCodecErr, {})
    /\ CodecFrame

\* UnitKey::bytes_decode of what an encode returned.
DecodeEncoded ==
    /\ ret.op = "UnitKey::bytes_encode"
    /\ ret.ok
    /\ LET r == UnitKeyDecode(ret.res)
       IN ret' = Ret("decode(encode)", r.ok, 0, ret.res, 0, r.item, r.err, {})
    /\ CodecFrame

InitCodec ==
    /\ envTag = [e \in {MainEnv} |-> "A"]
    /\ store = [e \in {MainEnv} |-> [n \in Names |-> NoTable]]
    /\ dbs = <<>>
    /\ fired = [h \in 1..MaxHandles |-> 0]
    /\ subs = NoSubs
    /\ stack = <<>>
    /\ left = 0
    /\ \/ ret = Ret("unit", TRUE, 0, 0, 0, None, NoCodecErr, {})
       \/ \E b \in BytesUpTo(MaxBytesLen) :
             ret = Ret("bytes", TRUE, 0, b, 0, None, NoCodecErr, {})

NextCodec ==
    \/ BytesDecodeUnit
    \/ BytesEncodeUnit
    \/ EncodeDecoded
    \/ DecodeEncoded

SpecCodec == InitCodec /\ [][NextCodec]_vars

(***************************************************************************)
(* Properties.  A step is recognised by the record of the call it made.    *)
(***************************************************************************)
CommitOkTop == Len(stack) = 1 /\ ret'.op = "commit" /\ ret'.ok
CommitOkNested == Len(stack) > 1 /\ ret'.op = "commit" /\ ret'.ok
CommitFailed == Len(stack) >= 1 /\ ret'.op = "commit" /\ ~ret'.ok
Aborted == Len(stack) >= 1 /\ ret'.op \in {"abort", "drop"}

\* The innermost transaction after the step.
TopAfter == stack'[Len(stack')]

\* What a reader of handle h sees: the view of the innermost open write
\* transaction, or the committed store when none is open.
SeenBy(h) == IF stack # <<>> THEN Top.view ELSE store[dbs[h].env]

\* What get(k) on handle h returns now.
Stored(h, k) == get(SeenBy(h), h, k, FALSE)

\* The same after the step.
SeenAfter(h) == IF stack' # <<>> THEN TopAfter.view ELSE store'[dbs[h].env]
StoredAfter(h, k) == get(SeenAfter(h), h, k, FALSE)

\* The rows of a table under keys other than kb.
RowsElse(t, kb) == {r \in t.rows : r[1] # kb}

\* The step changed at most the table of handle h in the innermost view.
OnlyTable(h) ==
    /\ Len(stack') = Len(stack)
    /\ \A n \in Names \ {dbs[h].name} : TopAfter.view[n] = Top.view[n]
    /\ \A i \in 1..(Len(stack) - 1) : stack'[i] = stack[i]
    /\ store' = store

\* C1: when a top-level write transaction commits with success, the channel
\* of every database handle written through it is fired exactly once by that
\* commit, and the channel of a handle that neither it nor a committed child
\* wrote through is not fired.
C1_CommitFiresEachWritten ==
    [][CommitOkTop =>
          \A h \in Handles :
             /\ h \in Top.written => fired'[h] = fired[h] + 1
             /\ h \notin Top.written \cup Top.inherited =>
                   fired'[h] = fired[h]]_vars

\* C2: aborting (or dropping) a write transaction fires no channel and
\* leaves the committed store and every enclosing transaction as they were;
\* while a write transaction is open the committed store changes only by a
\* successful top-level commit, and a transaction begun afterwards starts
\* from the committed store: it sees every table as it was before the
\* aborted transaction began.
C2_AbortDiscards ==
    [][/\ Aborted => fired' = fired /\ store' = store /\ stack' = Pop(stack)
       /\ (stack # <<>> /\ ~CommitOkTop) => store' = store /\ fired' = fired
       /\ (ret'.op = "write_txn" /\ ret'.ok) =>
             stack' = <<NewTxn(stack'[1].env, stack'[1].env,
                               store[stack'[1].env])>>]_vars

\* A top-level transaction that had written was aborted.
C2_Witness ==
    /\ ret.op \in {"abort", "drop"}
    /\ stack = <<>>
    /\ ret.self[1].written # {}

\* C3: after put(k, v) returns Ok on a unique-key database, get(k) in the
\* same transaction returns v, and the value get(k) returns stays the same
\* over every later step (a nested begin, a commit into the parent, the
\* top-level commit, a transaction begun later) that is not an abort, a
\* failed commit, a delete or put of k or a clear of that table.
C3_PutThenGet ==
    [][/\ (ret'.op = "put" /\ ret'.ok /\ Kind(dbs[ret'.h].name) = "unique") =>
             StoredAfter(ret'.h, ret'.key) =
                [ok |-> TRUE, res |-> ret'.val, err |-> NoErr]
       /\ \A h \in Handles, k \in KeyItems :
             (/\ Kind(dbs[h].name) = "unique"
              /\ Stored(h, k).ok
              /\ ~Aborted
              /\ ~CommitFailed
              /\ ~(/\ ret'.ok
                   /\ ret'.op \in {"put", "delete", "clear"}
                   /\ dbs[ret'.h].name = dbs[h].name
                   /\ (ret'.op = "clear" \/ ret'.key = k)))
             => StoredAfter(h, k) = Stored(h, k)]_vars

\* get in a read transaction, after the commit, returned a value that was put.
C3_Witness ==
    /\ ret.op = "get"
    /\ ret.ok
    /\ ret.res = 2
    /\ stack = <<>>

\* C4: try_put(k, v) that returns Ok: when k had a value w it returns
\* Some(w) and the table is unchanged; when k was absent it returns None and
\* k maps to v afterwards; no other key and no other table changes.
C4_TryPut ==
    [][(ret'.op = "try_put" /\ ret'.ok) =>
          LET h == ret'.h
              kb == bytes_encode(ret'.key).bytes
              vb == bytes_encode(ret'.val).bytes
              t == Top.view[dbs[h].name]
              t2 == TopAfter.view[dbs[h].name]
          IN /\ OnlyTable(h)
             /\ RowsElse(t2, kb) = RowsElse(t, kb)
             /\ IF RowsOf(t, kb) # {}
                THEN /\ \E w \in ValItems :
                           /\ RowsOf(t, kb) = {<<kb, bytes_encode(w).bytes>>}
                           /\ ret'.res = Some(w)
                     /\ t2 = t
                ELSE /\ ret'.res = None
                     /\ RowsOf(t2, kb) = {<<kb, vb>>}]_vars

\* try_put found another value under the key, returned it and left it there.
C4_Witness ==
    /\ ret.op = "try_put"
    /\ ret.ok
    /\ ret.res # None
    /\ ret.res # Some(ret.val)
    /\ get(Top.view, ret.h, ret.key, FALSE).res = ret.res[1]

\* C5: delete(k) that returns Ok: false with the table unchanged when k is
\* absent; true with k's entry (every value of k in a duplicate-key
\* database) removed when k is present; no other key and no other table
\* changes.
C5_Delete ==
    [][(ret'.op = "delete" /\ ret'.ok) =>
          LET h == ret'.h
              kb == bytes_encode(ret'.key).bytes
              t == Top.view[dbs[h].name]
              t2 == TopAfter.view[dbs[h].name]
          IN /\ OnlyTable(h)
             /\ RowsElse(t2, kb) = RowsElse(t, kb)
             /\ RowsOf(t2, kb) = {}
             /\ t2.exists
             /\ ret'.res = (RowsOf(t, kb) # {})]_vars

\* delete returned true on a duplicate-key table that keeps another key.
C5_Witness ==
    /\ ret.op = "delete"
    /\ ret.ok
    /\ ret.res = TRUE
    /\ Kind(dbs[ret.h].name) = "dup"
    /\ TableOf(ret.h).rows # {}

\* C6: delete_one(k, v) that returns Ok removes exactly the pair (k, v):
\* true when the pair was stored, false otherwise; every other value of k
\* and every other key stay, and get(k) then yields the remaining values.
C6_DeleteOne ==
    [][(ret'.op = "delete_one" /\ ret'.ok) =>
          LET h == ret'.h
              kb == bytes_encode(ret'.key).bytes
              vb == bytes_encode(ret'.val).bytes
              t == Top.view[dbs[h].name]
              t2 == TopAfter.view[dbs[h].name]
          IN /\ OnlyTable(h)
             /\ t2.rows = t.rows \ {<<kb, vb>>}
             /\ t2.exists
             /\ ret'.res = (<<kb, vb>> \in t.rows)
             /\ LET g == get_duplicates(TopAfter.view, h, ret'.key, FALSE)
                IN /\ g.ok
                   /\ {g.res[i] : i \in 1..Len(g.res)} =
                         {w \in ValItems \ {ret'.val} :
                             bytes_encode(w).ok
                             /\ <<kb, bytes_encode(w).bytes>> \in t.rows}]_vars

\* delete_one removed one value of a key and another value of it remains.
C6_Witness ==
    /\ ret.op = "delete_one"
    /\ ret.ok
    /\ ret.res = TRUE
    /\ RowsOf(TableOf(ret.h), bytes_encode(ret.key).bytes) # {}

\* The transaction below the innermost one: the parent of a nested one.
Parent == stack[Len(stack) - 1]

\* C7: committing a nested write transaction fires no channel and leaves the
\* committed store alone: its registrations are merged into the parent's
\* pending set; and when the top-level transaction commits, the channel of
\* every handle written through a committed child is fired exactly once.
C7_NestedCommitDefers ==
    [][/\ CommitOkNested =>
             /\ fired' = fired
             /\ store' = store
             /\ Len(stack') = Len(stack) - 1
             /\ \A n \in Names :
                   TopAfter.pending[n] # 0 <=>
                      (Parent.pending[n] # 0 \/ Top.pending[n] # 0)
       /\ CommitOkTop =>
             \A h \in Top.inherited : fired'[h] = fired[h] + 1]_vars

\* C8: aborting (or dropping) a nested write transaction leaves the parent
\* as it was: its view, its pending set, what was written through it; while
\* a child is open nothing but the child's successful commit changes the
\* parent; and a later top-level commit fires no channel but those of
\* handles written through the parent itself or through children that
\* committed.
C8_NestedAbortLeavesParent ==
    [][/\ (Aborted /\ Len(stack) > 1) =>
             stack' = Pop(stack) /\ fired' = fired /\ store' = store
       /\ (Len(stack) > 1 /\ ~CommitOkNested) =>
             SubSeq(stack', 1, Len(stack) - 1) = Pop(stack)
       /\ CommitOkTop =>
             \A h \in Handles :
                fired'[h] # fired[h] => h \in Top.written \cup Top.inherited]_vars

\* A child that had written was aborted under a parent that had written too.
C8_Witness ==
    /\ ret.op \in {"abort", "drop"}
    /\ Len(stack) = 1
    /\ ret.self[1].written # {}
    /\ Top.written # {}

\* C9: when the engine-level commit fails, commit returns the Commit error
\* with the environment's directory and the engine error as its source, no
\* channel is fired, nothing is merged into a parent, the committed store is
\* unchanged; and commit consumes the transaction whether it fails or not.
C9_CommitFailure ==
    [][/\ CommitFailed =>
             /\ ret'.err = [kind |-> "Commit", db_dir |-> Path(Top.env),
                            source |-> "Mdb"]
             /\ fired' = fired
             /\ store' = store
             /\ stack' = Pop(stack)
       /\ (Len(stack) >= 1 /\ ret'.op = "commit") =>
             Len(stack') = Len(stack) - 1]_vars

\* The commit of a child with registrations failed; the parent is still open.
C9_Witness ==
    /\ ret.op = "commit"
    /\ ~ret.ok
    /\ ret.err.kind = "Commit"
    /\ ret.self[1].pending # NoPending
    /\ Len(stack) = 1

C11_NoCrossUse ==
    (/\ stack # <<>>
     /\ ret.h \in Handles
     /\ ret.op \in {"create", "put", "try_put", "delete", "delete_one", "clear"})
    => dbs[ret.h].env = Top.env

\* A key lookup can be made in the innermost write transaction, when one is
\* open, or in a read transaction on any environment.
ReadVia == {via \in Via : via = InRw => stack # <<>>}

\* C12: on a unique-key database, for every key and every transaction the
\* lookup can run in, and whether or not the engine fails the lookup: get
\* returns v exactly when try_get returns Some(v); get fails with
\* Get::MissingValue, carrying the database's name and path and the encoded
\* key, exactly when try_get returns None; get fails with Get::TryGet,
\* carrying what try_get failed with, exactly when try_get fails.
C12_GetVsTryGet ==
    \A h \in Handles, k \in KeyItems, via \in ReadVia, mdb \in BOOLEAN :
       Kind(dbs[h].name) = "unique" =>
          LET t == try_get(ViewOf(via), h, k, mdb)
              g == get(ViewOf(via), h, k, mdb)
          IN /\ g.ok <=> (t.ok /\ t.res # None)
             /\ g.ok => t.res = Some(g.res)
             /\ (~g.ok /\ g.err.kind = "Get::MissingValue")
                   <=> (t.ok /\ t.res = None)
             /\ (t.ok /\ t.res = None) =>
                   g.err = [kind |-> "Get::MissingValue",
                            db_name |-> dbs[h].name,
                            db_path |-> Path(dbs[h].env),
                            key_bytes |-> bytes_encode(k).bytes]
             /\ (~g.ok /\ g.err.kind = "Get::TryGet") <=> ~t.ok
             /\ ~t.ok => g.err = [t.err EXCEPT !.kind = "Get::TryGet"]

\* get reported a missing key of a table that holds another key, while a
\* lookup with an unencodable key fails in try_get.
C12_Witness ==
    /\ ret.op = "get"
    /\ ~ret.ok
    /\ ret.err.kind = "Get::MissingValue"
    /\ SeenBy(ret.h)[dbs[ret.h].name].rows # {}
    /\ ~try_get(SeenBy(ret.h), ret.h, 256, FALSE).ok

\* The rows of the handle's table in a view, and the items of their keys.
StoredRows(via, h) == RowsSeen(ViewOf(via), h)
StoredKeys(via, h) == {bytes_decode(r[1]).item : r \in StoredRows(via, h)}

\* C13: on a sorted-duplicates table, whatever puts, delete_one, delete_each
\* and clear left in it, iter_keys_unique yields exactly the distinct stored
\* keys, each of them once, in strictly ascending order.
C13_IterKeysUnique ==
    \A h \in Handles, via \in ReadVia :
       Kind(dbs[h].name) = "dup" =>
          LET r == iter_keys_unique(ViewOf(via), h, FALSE)
          IN r.ok =>
                /\ \A i \in 1..Len(r.res) : r.res[i].ok
                /\ {r.res[i].item[1] : i \in 1..Len(r.res)} = StoredKeys(via, h)
                /\ Len(r.res) = Cardinality(StoredKeys(via, h))
                /\ \A i \in 1..(Len(r.res) - 1) :
                      r.res[i].item[1] < r.res[i + 1].item[1]

\* iter_keys_unique returned two keys from a table of three rows.
C13_Witness ==
    /\ ret.op = "iter_keys_unique" /\ ret.ok
    /\ Kind(dbs[ret.h].name) = "dup"
    /\ Len(ret.res) = 2
    /\ Cardinality(SeenBy(ret.h)[dbs[ret.h].name].rows) = 3

\* The values an iterator's steps carry for one key, in the order yielded.
ValuesFor(steps, k) ==
    LET HasKey(st) == st.ok /\ st.item[1] = k
        sel == SelectSeq(steps, HasKey)
    IN [i \in 1..Len(sel) |-> sel[i].item[2]]

\* C14: iter_through_duplicate_values yields every stored (key, value) row
\* exactly once, and for every key the values it yields under that key are,
\* in order, those RoDatabaseDup::get (get_duplicates) returns for the key.
C14_ThroughDuplicateValues ==
    \A h \in Handles, via \in ReadVia :
       Kind(dbs[h].name) = "dup" =>
          LET r == iter_through_duplicate_values(ViewOf(via), h, FALSE)
          IN r.ok =>
                /\ \A i \in 1..Len(r.res) : r.res[i].ok
                /\ {<<bytes_encode(r.res[i].item[1]).bytes,
                      bytes_encode(r.res[i].item[2]).bytes>> :
                       i \in 1..Len(r.res)} = StoredRows(via, h)
                /\ Len(r.res) = Cardinality(StoredRows(via, h))
                /\ \A k \in KeyItems :
                      LET g == get_duplicates(ViewOf(via), h, k, FALSE)
                      IN g.ok => ValuesFor(r.res, k) = g.res

\* iter_through_duplicate_values walked three rows, two of them of one key.
C14_Witness ==
    /\ ret.op = "iter_through_duplicate_values" /\ ret.ok
    /\ Kind(dbs[ret.h].name) = "dup"
    /\ Len(ret.res) = 3
    /\ \E k \in KeyItems : Len(ValuesFor(ret.res, k)) = 2

\* The steps carry exactly the keys of K, one step each, and each step
\* carries the first (smallest) value stored under its key.
OncePerKey(steps, K, via, h) ==
    /\ \A i \in 1..Len(steps) : steps[i].ok
    /\ {steps[i].item[1] : i \in 1..Len(steps)} = K
    /\ Len(steps) = Cardinality(K)
    /\ \A i \in 1..Len(steps) :
          steps[i].item[2] =
             get_duplicates(ViewOf(via), h, steps[i].item[1], FALSE).res[1]

Ascending(steps) ==
    \A i \in 1..(Len(steps) - 1) : steps[i].item[1] < steps[i + 1].item[1]

Descending(steps) ==
    \A i \in 1..(Len(steps) - 1) : steps[i].item[1] > steps[i + 1].item[1]

\* The item lies within a bound of a range over key items.
Within(k, lo, hi) ==
    /\ lo.bound = "Included" => lo.key <= k
    /\ lo.bound = "Excluded" => lo.key < k
    /\ hi.bound = "Included" => k <= hi.key
    /\ hi.bound = "Excluded" => k < hi.key

\* C15: through-keys iteration yields one item per distinct key, carrying the
\* key's first (smallest) value, and does so forward (iter_through_keys,
\* ascending), in reverse (rev_iter_through_keys, descending) and within
\* range bounds (range_through_keys).
C15_ThroughKeys ==
    \A h \in Handles, via \in ReadVia :
       Kind(dbs[h].name) = "dup" =>
          LET f == iter_through_keys(ViewOf(via), h, FALSE)
              b == rev_iter_through_keys(ViewOf(via), h, FALSE)
          IN /\ f.ok => OncePerKey(f.res, StoredKeys(via, h), via, h)
                           /\ Ascending(f.res)
             /\ b.ok => OncePerKey(b.res, StoredKeys(via, h), via, h)
                           /\ Descending(b.res)
             /\ \A lo \in RangeBounds(KeyItems), hi \in RangeBounds(KeyItems) :
                   LET g == range_through_keys(ViewOf(via), h, lo, hi, FALSE)
                   IN g.ok =>
                         /\ OncePerKey(g.res,
                               {k \in StoredKeys(via, h) : Within(k, lo, hi)},
                               via, h)
                         /\ Ascending(g.res)

\* Every stored row of the handle's table decodes with the handle's codecs.
AllDecode(via, h) ==
    \A r \in StoredRows(via, h) : bytes_decode(r[1]).ok /\ bytes_decode(r[2]).ok

\* The rows the steps carry, as stored.
RowsYielded(steps) ==
    {<<bytes_encode(steps[i].item[1]).bytes,
       bytes_encode(steps[i].item[2]).bytes>> : i \in 1..Len(steps)}

\* The steps carry exactly the rows whose key k has a < k <= b, each once,
\* in ascending key order.
YieldsBetween(steps, a, b, via, h) ==
    /\ \A i \in 1..Len(steps) : steps[i].ok
    /\ RowsYielded(steps) =
          {r \in StoredRows(via, h) :
              a < bytes_decode(r[1]).item /\ bytes_decode(r[1]).item <= b}
    /\ Len(steps) = Cardinality(RowsYielded(steps))
    /\ \A i \in 1..(Len(steps) - 1) :
          steps[i].item[1] <= steps[i + 1].item[1]

\* C16: a range with exclusive start a and inclusive end b yields exactly the
\* entries with a < k <= b in ascending key order (keys {1,2,3,4,5}, a = 2,
\* b = 4: 3, 4), and the reverse iteration of the same range yields the same
\* entries in descending key order (4, 3).  The reverse walks DbWrapper has
\* are rev_iter_through_duplicate_values and rev_iter_through_keys.
C16_RangeThenReverse ==
    \A h \in Handles, via \in ReadVia, a \in RangeKeys, b \in RangeKeys :
       AllDecode(via, h) =>
          LET lo == [bound |-> "Excluded", key |-> a]
              hi == [bound |-> "Included", key |-> b]
              d == range_through_duplicate_values(ViewOf(via), h, lo, hi,
                                                  FALSE)
              g == range_through_keys(ViewOf(via), h, lo, hi, FALSE)
              rd == rev_iter_through_duplicate_values(ViewOf(via), h, FALSE)
          IN /\ d.ok => YieldsBetween(d.res, a, b, via, h)
             /\ g.ok => /\ \A i \in 1..Len(g.res) : g.res[i].ok
                        /\ {g.res[i].item[1] : i \in 1..Len(g.res)} =
                              {k \in StoredKeys(via, h) : a < k /\ k <= b}
                        /\ Len(g.res) =
                              Cardinality({k \in StoredKeys(via, h) :
                                              a < k /\ k <= b})
                        /\ Ascending(g.res)
             /\ (d.ok /\ rd.ok) => rd.res = Reverse(d.res)

\* C17: contains_key returns true exactly when an entry is stored under the
\* key, and does not decode the stored value: it succeeds, with true, on a
\* key whose stored value bytes do not decode with the table's value codec,
\* where try_get on the same key fails.
C17_ContainsKey ==
    \A h \in Handles, via \in ReadVia, k \in RangeKeys \cup KeyItems :
       LET kb == bytes_encode(k)
           c == contains_key(ViewOf(via), h, k, FALSE)
           t == try_get(ViewOf(via), h, k, FALSE)
           entries == {r \in StoredRows(via, h) : kb.ok /\ r[1] = kb.bytes}
       IN /\ c.ok <=> (kb.ok /\ ViewOf(via)[dbs[h].name].exists)
          /\ c.ok => (c.res <=> entries # {})
          /\ (\E r \in entries : ~bytes_decode(r[2]).ok) =>
                c.ok /\ c.res /\ ~t.ok

\* contains_key answered true for a key whose value try_get cannot decode.
C17_Witness ==
    /\ ret.op = "contains_key" /\ ret.ok /\ ret.res
    /\ ~try_get(SeenBy(ret.h), ret.h, ret.key, FALSE).ok

\* C18: put on a unique-key database is an unconditional upsert: a value
\* already stored under the key is replaced, exactly one entry is stored for
\* the key afterwards (the number of entries grows by one only when the key
\* was absent), and no entry of another key, and no other table, changes.
C18_PutUpserts ==
    [][(ret'.op = "put" /\ ret'.ok /\ Kind(dbs[ret'.h].name) = "unique") =>
          LET h == ret'.h
              kb == bytes_encode(ret'.key).bytes
              vb == bytes_encode(ret'.val).bytes
              before == Top.view[dbs[h].name]
              after == TopAfter.view[dbs[h].name]
          IN /\ RowsOf(after, kb) = {<<kb, vb>>}
             /\ Cardinality(after.rows) =
                   Cardinality(before.rows)
                      + (IF RowsOf(before, kb) = {} THEN 1 ELSE 0)
             /\ RowsElse(after, kb) = RowsElse(before, kb)
             /\ OnlyTable(h)]_vars

\* A put replaced, inside a later transaction, the value committed under the
\* same key.
C18_Witness ==
    /\ ret.op = "put" /\ ret.ok
    /\ Kind(dbs[ret.h].name) = "unique"
    /\ stack # <<>>
    /\ LET kb == bytes_encode(ret.key).bytes
           was == ValuesOf(store[Top.env][dbs[ret.h].name], kb)
       IN /\ was # {}
          /\ bytes_encode(ret.val).bytes \notin was
          /\ Cardinality(Top.view[dbs[ret.h].name].rows) = 1

\* C19: clear removes every entry of its database (len is 0, and get and
\* try_get find nothing, in the clearing transaction and after the commit),
\* leaves every other database as it was, and makes the commit fire the
\* cleared database's channel as any other write does.
C19_Clear ==
    [][/\ (ret'.op = "clear" /\ ret'.ok) =>
             /\ len(TopAfter.view, ret'.h, FALSE) =
                   [ok |-> TRUE, res |-> 0, err |-> NoErr]
             /\ \A k \in KeyItems :
                   bytes_encode(k).ok =>
                      /\ try_get(TopAfter.view, ret'.h, k, FALSE) =
                            [ok |-> TRUE, res |-> None, err |-> NoErr]
                      /\ get(TopAfter.view, ret'.h, k, FALSE).err =
                            MissingValue(ret'.h, k)
             /\ OnlyTable(ret'.h)
       /\ CommitOkTop =>
             /\ store'[Top.env] = Top.view
             /\ \A h \in Top.cleared : fired'[h] = fired[h] + 1
       /\ CommitOkNested => TopAfter.view = Top.view]_vars

\* C20: the channel of a database starts with no change pending for its
\* subscriber, and is level-triggered: a check reports a change, once,
\* exactly when one or more commits stored writes made through the database
\* since the subscriber's previous check.
C20_LevelTriggered ==
    [][/\ (ret'.op \in {"create", "open"} /\ ret'.ok) =>
             fired'[ret'.h] = subs'[ret'.h].seen
       /\ ret'.op = "check" =>
             /\ ret'.res <=> subs[ret'.h].touched
             /\ fired'[ret'.h] = subs'[ret'.h].seen]_vars

\* C21: the UnitKey codec round-trips.  Encoding the unit value succeeds and
\* yields the single byte 0x69; decoding that encoding yields the unit value;
\* every byte string that decodes is encoded back to itself; and decode fails
\* on every byte string other than the single byte 0x69, a wrong single byte
\* and a wrong length being different errors.
C21_UnitKeyRoundTrip ==
    /\ ret.op = "UnitKey::bytes_encode" => ret.ok /\ ret.res = <<105>>
    /\ ret.op = "decode(encode)" => ret.ok /\ ret.res = UnitValue
    /\ ret.op = "encode(decode)" => ret.ok /\ ret.res = ret.key
    /\ ret.op = "UnitKey::bytes_decode" =>
          /\ ret.ok <=> ret.key = <<105>>
          /\ ret.ok => ret.res = UnitValue
          /\ ~ret.ok =>
                /\ Len(ret.key) = 1 =>
                      ret.err = [kind |-> "IncorrectByte", arg |-> ret.key[1]]
                /\ Len(ret.key) # 1 =>
                      ret.err = [kind |-> "IncorrectBytes",
                                 arg |-> Len(ret.key)]

\* A byte string was decoded and the unit value it gave was encoded again.
C21_Witness == ret.op = "encode(decode)" /\ ret.ok /\ ret.res = ret.key

\* The bound a range error has to report for one side of the range: its kind
\* and its encoded bytes when the key encodes, the encode error otherwise.
SideOk(b) == b.bound = "Unbounded" \/ bytes_encode(b.key).ok

SideReported(b, field, printed, failedText, text) ==
    /\ field.ok <=> SideOk(b)
    /\ field.bound.bound = b.bound
    /\ SideOk(b) =>
          /\ b.bound # "Unbounded" => field.bound.bytes = <<b.key>>
          /\ printed.bound = b.bound
          /\ b.bound # "Unbounded" => printed.bytes = hex_encode(<<b.key>>)
    /\ ~SideOk(b) =>
          /\ field.bound.bytes = "EncodeError"
          /\ text = failedText

\* C22: when a range query fails because a bound cannot be encoded, the
\* RangeInit error identifies which side failed and why and still reports the
\* other side's bound: for each side, the error's field and its message hold
\* the bound's kind and bytes when the key encodes, and the encode error when
\* it does not; when both fail, both failures are reported.
C22_RangeInitBothSides ==
    (/\ ret.op \in {"range_through_duplicate_values", "range_through_keys"}
     /\ ~ret.ok
     /\ ~(SideOk(ret.key[1]) /\ SideOk(ret.key[2])))
    => LET e == ret.err
           m == RangeInitMessage(e).range
       IN /\ e.kind = "RangeInit"
          /\ SideReported(ret.key[1], e.range_start_bytes, m.start,
                          "key encoding failed for range start with error",
                          m.text)
          /\ SideReported(ret.key[2], e.range_end_bytes, m.end,
                          "key encoding failed for range end with error",
                          m.text)

\* The byte field of an error for the argument x: the encoded bytes when x
\* encodes, the encode error when it does not.
BytesFieldOf(field, x) ==
    /\ field.ok <=> x \in 0..255
    /\ x \in 0..255 => field.bytes = <<x>>
    /\ x \notin 0..255 => field.bytes = "EncodeError"

\* C23: whenever put, try_put, delete, delete_one, try_get, contains_key or
\* get_duplicates fails, the key field of the error (and the value field, for
\* put and try_put) holds the encoded bytes exactly when that argument
\* encodes, and the encode error otherwise, never empty or placeholder bytes;
\* and the error carries the name and the path of the database.
C23_ErrorBytes ==
    (/\ ret.op \in {"put", "try_put", "delete", "delete_one", "try_get",
                    "contains_key", "get_duplicates"}
     /\ ~ret.ok)
    => /\ ret.err.db_name = dbs[ret.h].name
       /\ ret.err.db_path = Path(dbs[ret.h].env)
       /\ BytesFieldOf(ret.err.key_bytes, ret.key)
       /\ ret.op \in {"put", "try_put"} =>
             BytesFieldOf(ret.err.value_bytes, ret.val)

\* A put failed on a key that does not encode, with a value that does.
C23_Witness ==
    /\ ret.op = "put"
    /\ ~ret.ok
    /\ ~ret.err.key_bytes.ok
    /\ ret.err.value_bytes = [ok |-> TRUE, bytes |-> <<ret.val>>]

\* C24: constructing a cross-database inconsistency error (And::new,
\* Nor::new, Xor::new) always yields an error value: the value holds the
\* encoded payload when the payload encodes, and the encode error, marked as
\* such, when it does not; construction never aborts the program.
C24_InconsistentAlwaysBuilt ==
    ret.op \in {"And::new", "Nor::new", "Xor::new"}
    => /\ ret.ok
       /\ ret.res.kind = CASE ret.op = "And::new" -> "And"
                           [] ret.op = "Nor::new" -> "Nor"
                           [] ret.op = "Xor::new" -> "Xor"
       /\ bytes_encode(ret.key).ok => ret.res.inner.on = <<ret.key>>
       /\ ~bytes_encode(ret.key).ok => ret.res.inner.on = "EncodeError"

\* The names a transaction's pending-write set holds an entry for.
PendingNames(txn) == {n \in Names : txn.pending[n] # 0}

WriteOps == {"put", "try_put", "delete", "delete_one", "clear"}

\* The step left the stack as deep as it was and every pending set as it was.
PendingKept ==
    /\ Len(stack') = Len(stack)
    /\ \A i \in 1..Len(stack) :
          PendingNames(stack'[i]) = PendingNames(stack[i])

\* C25: the pending-write set of an open write transaction holds exactly the
\* names of the databases on which a put, try_put, delete, delete_one,
\* delete_each or clear returned success through the transaction or through
\* a nested child that has since committed.  It is empty when a transaction
\* begins (top-level or nested); a successful write adds the name of its
\* database, once; reads, failed writes, create and open add nothing; a
\* committed child's names are added to its parent's, and an aborted child's
\* are dropped.
C25_PendingSet ==
    [][/\ \A i \in 1..Len(stack) :
             PendingNames(stack[i]) =
                {dbs[h].name : h \in stack[i].written \cup stack[i].inherited}
       /\ (ret'.op \in {"write_txn", "nested_write_txn"} /\ ret'.ok) =>
             /\ Len(stack') = Len(stack) + 1
             /\ PendingNames(TopAfter) = {}
             /\ \A i \in 1..Len(stack) :
                   PendingNames(stack'[i]) = PendingNames(stack[i])
       /\ (ret'.op \in WriteOps /\ ret'.ok) =>
             /\ Len(stack') = Len(stack)
             /\ PendingNames(TopAfter) =
                   PendingNames(Top) \cup {dbs[ret'.h].name}
             /\ \A i \in 1..(Len(stack) - 1) :
                   PendingNames(stack'[i]) = PendingNames(stack[i])
       /\ (ret'.op \in WriteOps /\ ~ret'.ok) => PendingKept
       /\ ret'.op \in ReadOps \cup {"create", "open"} => PendingKept
       /\ CommitOkNested =>
             PendingNames(TopAfter) =
                PendingNames(Parent) \cup PendingNames(Top)
       /\ (Len(stack) > 1 /\ (Aborted \/ CommitFailed)) =>
             PendingNames(TopAfter) = PendingNames(Parent)]_vars

\* A top-level transaction wrote one database itself and holds the name of
\* another from a child that committed.
C25_Witness ==
    /\ Len(stack) = 1
    /\ Top.inherited # {}
    /\ Top.written # {}
    /\ PendingNames(Top) = Names

\* A subscriber takes a signal in this step.
Signalled(h) == h \in Handles /\ subs'[h].seen # subs[h].seen

\* What a read transaction begun now on the environment sees holds every
\* write of the transaction being committed.
SeesCommitted == store[InCommit.env] = InCommit.view

\* C26: a notification is fired only after the engine-level commit of the
\* top-level write transaction has returned success, never before it or
\* during it: a channel is fired only by a commit that is past its engine
\* commit, with the committed store already holding the transaction's writes,
\* and a subscriber that takes a signal while the commit is still sending
\* sees all those writes in a read transaction it begins then.
C26_FiredAfterCommit ==
    [][/\ fired' # fired =>
             /\ Committing
             /\ SeesCommitted
             /\ store' = store
       /\ \A h \in 1..MaxHandles :
             (Signalled(h) /\ Committing) => SeesCommitted
       /\ (ret'.op = "commit" /\ ~ret'.ok) => fired' = fired]_vars

\* A subscriber has taken the signal of a commit that is still sending its
\* other notification.
C26_Witness ==
    /\ Committing
    /\ \E h \in Handles : fired[h] = 1 /\ subs[h].seen = 1
    /\ InCommit.pending # NoPending

\* A write call returned success and reported that it stored nothing: delete
\* or delete_one returned false, or try_put returned the existing value.
NothingStored ==
    /\ ret'.ok
    /\ \/ ret'.op \in {"delete", "delete_one"} /\ ret'.res = FALSE
       \/ ret'.op = "try_put" /\ ret'.res # None

\* C27: a commit fires the channel of a database only if the committed
\* transaction changed the stored contents of that database: a call that
\* stored nothing (delete or delete_one returning false, try_put returning
\* the existing value) registers nothing to fire, and a successful top-level
\* commit fires only channels of tables whose committed contents it changed.
C27_FiresOnlyIfChanged ==
    [][/\ NothingStored =>
             /\ TopAfter.view = Top.view
             /\ PendingNames(TopAfter) = PendingNames(Top)
       /\ CommitOkTop =>
             \A h \in Handles :
                fired'[h] # fired[h] =>
                   store'[Top.env][dbs[h].name] # store[Top.env][dbs[h].name]]_vars

\* C28: when two handles of one table name, from separate create or open
\* calls, are both written through in one write transaction, a successful
\* commit of that transaction fires the channel of each of the two exactly
\* once.
C28_BothHandlesFire ==
    [][CommitOkTop =>
          \A h1 \in Handles, h2 \in Handles :
             (/\ h1 # h2
              /\ dbs[h1].name = dbs[h2].name
              /\ {h1, h2} \subseteq Top.written)
             => /\ fired'[h1] = fired[h1] + 1
                /\ fired'[h2] = fired[h2] + 1]_vars

C30_GetDuplicatesAbsent ==
    \A h \in Handles, k \in KeyItems, via \in ReadVia, mdb \in BOOLEAN :
       Kind(dbs[h].name) = "dup" =>
          LET g == get_duplicates(ViewOf(via), h, k, mdb)
              kb == bytes_encode(k)
              t == ViewOf(via)[dbs[h].name]
          IN /\ (kb.ok /\ ~mdb /\ t.exists /\ ValuesOf(t, kb.bytes) = {}) =>
                   g = [ok |-> TRUE, res |-> <<>>, err |-> NoErr]
             /\ g.ok => Len(g.res) = Cardinality(ValuesOf(t, kb.bytes))
             /\ (~kb.ok \/ mdb) => ~g.ok
             /\ ~g.ok =>
                   /\ g.res = None
                   /\ g.err.kind = "IterDuplicatesInit"
                   /\ g.err.db_name = dbs[h].name
                   /\ g.err.source = IF kb.ok THEN "Mdb" ELSE "Encoding"

\* get found no value under a key of a duplicate-key table that holds values
\* under another key.
C30_Witness ==
    /\ ret.op = "get_duplicates"
    /\ ret.ok
    /\ ret.res = <<>>
    /\ store[dbs[ret.h].env][dbs[ret.h].name].rows # {}
    /\ stack = <<>>

====
